---- MODULE Spec2Model ----
(***************************************************************************)
(* Plantologica: the prediction endpoint (src/app/api/predict/route.ts)    *)
(* and the result view's range helpers (src/app/page.tsx).                 *)
(*                                                                         *)
(* Conventions.                                                            *)
(*  - A JavaScript string that the code inspects character by character    *)
(*    (plantType, an optimal-range string, the AI text) is a sequence of   *)
(*    one-character strings; fixed messages the code only copies are       *)
(*    atomic strings.                                                      *)
(*  - A JSON object is a function whose DOMAIN is the set of keys present; *)
(*    reading an absent key yields undefined, and every relational         *)
(*    comparison with undefined is false.                                  *)
(*  - pH is carried in tenths (ph = 68 stands for 6.8), so the cutoffs     *)
(*    5.5 and 7.5 of the source read 55 and 75.                            *)
(***************************************************************************)
EXTENDS Integers, Sequences, FiniteSets, TLC

VARIABLES
  sensorData,      \* argument of the fallback engine under evaluation
  fallbackResult,  \* what the 8-field getFallbackData returned ("none" before the call)
  fallbackResult5, \* what the 5-field getFallbackData returned ("none" before the call)
  weatherInput,    \* arguments (weatherData, sensorData) of analyzeWeatherImpact
  pc,              \* the rule analyzeWeatherImpact evaluates next
  impact,          \* its locals riskLevel, issues, recommendations, weatherAlerts
  optimalString,   \* argument of parseOptimalRange
  optimalRange,    \* what parseOptimalRange returned ("none" before the call)
  currentValue,    \* first argument of getConditionStatus
  conditionStatus, \* what getConditionStatus returned ("none" before the call)
  badge,           \* the current value and status the result view derived for a quantity
  request,         \* the request the endpoint handled last
  response,        \* the response it sent
  calls,           \* the collaborators and engines it invoked, in order
  weatherService,  \* how the weather service behaved ("not called" if skipped)
  weatherFetched,  \* what fetchWeatherData returned ("not called" if skipped)
  aiOutcome,       \* what the generative-AI call did ("not called" if skipped)
  formData,        \* the form's state (page.tsx 72-80)
  userLocation,    \* the detected coordinates, or null (page.tsx 86)
  prediction,      \* page.tsx 81
  isLoading,       \* page.tsx 82
  error,           \* page.tsx 83
  apiStatus        \* page.tsx 84

fallbackVars == <<sensorData, fallbackResult, fallbackResult5>>
weatherVars == <<weatherInput, pc, impact>>
rangeVars == <<optimalString, optimalRange, currentValue, conditionStatus, badge>>
postVars == <<request, response, calls, weatherService, weatherFetched, aiOutcome>>
pageVars == <<formData, userLocation, prediction, isLoading, error, apiStatus>>
vars == <<sensorData, fallbackResult, fallbackResult5, weatherInput, pc, impact,
          optimalString, optimalRange, currentValue, conditionStatus, badge,
          request, response, calls, weatherService, weatherFetched, aiOutcome,
          formData, userLocation, prediction, isLoading, error, apiStatus>>

None == [none |-> TRUE]

\* the parts of the state a specification does not exercise stay parked
FallbackIdle == sensorData = None /\ fallbackResult = None /\ fallbackResult5 = None
WeatherIdle == weatherInput = None /\ pc = "idle" /\ impact = None
RangeIdle ==
  /\ optimalString = None /\ optimalRange = None
  /\ currentValue = None /\ conditionStatus = "none" /\ badge = None
PostIdle ==
  /\ request = None /\ response = None /\ calls = <<>>
  /\ weatherService = None /\ weatherFetched = None /\ aiOutcome = None
PageIdle ==
  /\ formData = None /\ userLocation = None /\ prediction = None
  /\ isLoading = FALSE /\ error = None /\ apiStatus = "none"

(***************************************************************************)
(* JavaScript primitives used by the code                                  *)
(***************************************************************************)
UpperChars == <<"A","B","C","D","E","F","G","H","I","J","K","L","M",
                "N","O","P","Q","R","S","T","U","V","W","X","Y","Z">>
LowerChars == <<"a","b","c","d","e","f","g","h","i","j","k","l","m",
                "n","o","p","q","r","s","t","u","v","w","x","y","z">>

\* String.prototype.toLowerCase on one character
lowerChar(c) ==
  IF \E k \in 1..Len(UpperChars) : UpperChars[k] = c
  THEN LowerChars[CHOOSE k \in 1..Len(UpperChars) : UpperChars[k] = c]
  ELSE c

\* String.prototype.toLowerCase
toLowerCase(s) == [i \in 1..Len(s) |-> lowerChar(s[i])]

\* obj[field] < c and obj[field] > c for a field that may be absent (undefined)
Lt(obj, field, c) == field \in DOMAIN obj /\ obj[field] < c
Gt(obj, field, c) == field \in DOMAIN obj /\ obj[field] > c

\* a JavaScript string value / a non-string value (number, boolean, object)
StringValue(chars) == [type |-> "string", chars |-> chars]
NumberValue(n) == [type |-> "number", value |-> n]

\* the one problem the fallback engine reports (route.ts 94, 458)
UnableToGetAiAnalysisDueToApiIssues ==
  <<"U","n","a","b","l","e"," ","t","o"," ","g","e","t"," ","A","I"," ","a",
    "n","a","l","y","s","i","s"," ","d","u","e"," ","t","o"," ","A","P","I",
    " ","i","s","s","u","e","s">>

(***************************************************************************)
(* Threshold table, 8-field variant (route.ts 342-384)                     *)
(***************************************************************************)
DefaultProfile ==
  [temperature |-> <<"1","8","-","2","5","°","C">>,
   humidity |-> <<"4","0","-","7","0","%">>,
   soilMoisture |-> <<"3","0","-","6","0","%">>,
   ph |-> <<"6",".","0","-","7",".","0">>,
   lightIntensity |-> <<"1","0","0","0","0","-","2","5","0","0","0"," ","l","u","x">>,
   Nitrogen |-> <<"1","0","0","-","2","0","0"," ","p","p","m">>,
   Phosphorus |-> <<"4","0","-","1","0","0"," ","p","p","m">>,
   Potassium |-> <<"1","0","0","-","2","0","0"," ","p","p","m">>]

TomatoProfile ==
  [temperature |-> <<"2","1","-","2","7","°","C">>,
   humidity |-> <<"6","0","-","8","0","%">>,
   soilMoisture |-> <<"5","0","-","7","0","%">>,
   ph |-> <<"6",".","0","-","6",".","8">>,
   lightIntensity |-> <<"2","0","0","0","0","-","3","0","0","0","0"," ","l","u","x">>,
   Nitrogen |-> <<"1","5","0","-","2","5","0"," ","p","p","m">>,
   Phosphorus |-> <<"6","0","-","8","0"," ","p","p","m">>,
   Potassium |-> <<"2","0","0","-","3","0","0"," ","p","p","m">>]

LettuceProfile ==
  [temperature |-> <<"1","5","-","2","1","°","C">>,
   humidity |-> <<"5","0","-","7","0","%">>,
   soilMoisture |-> <<"5","0","-","7","0","%">>,
   ph |-> <<"6",".","0","-","7",".","0">>,
   lightIntensity |-> <<"1","0","0","0","0","-","2","0","0","0","0"," ","l","u","x">>,
   Nitrogen |-> <<"1","0","0","-","1","5","0"," ","p","p","m">>,
   Phosphorus |-> <<"4","0","-","6","0"," ","p","p","m">>,
   Potassium |-> <<"1","5","0","-","2","5","0"," ","p","p","m">>]

CarrotProfile ==
  [temperature |-> <<"1","5","-","2","1","°","C">>,
   humidity |-> <<"4","0","-","6","0","%">>,
   soilMoisture |-> <<"4","0","-","6","0","%">>,
   ph |-> <<"6",".","0","-","6",".","8">>,
   lightIntensity |-> <<"2","0","0","0","0","-","3","0","0","0","0"," ","l","u","x">>,
   Nitrogen |-> <<"8","0","-","1","2","0"," ","p","p","m">>,
   Phosphorus |-> <<"5","0","-","1","0","0"," ","p","p","m">>,
   Potassium |-> <<"1","5","0","-","2","5","0"," ","p","p","m">>]

KeyDefault == <<"d","e","f","a","u","l","t">>
KeyTomato == <<"t","o","m","a","t","o">>
KeyLettuce == <<"l","e","t","t","u","c","e">>
KeyCarrot == <<"c","a","r","r","o","t">>

\* the own properties of the table object
plantOptimalConditions ==
  (KeyDefault :> DefaultProfile) @@ (KeyTomato :> TomatoProfile) @@
  (KeyLettuce :> LettuceProfile) @@ (KeyCarrot :> CarrotProfile)

\* The 5-field variant's table (route.ts 17-47) holds the same entries
\* without the three nutrient ranges.
FiveFields == {"temperature", "humidity", "soilMoisture", "ph", "lightIntensity"}
plantOptimalConditions5 ==
  [k \in DOMAIN plantOptimalConditions |->
     [f \in FiveFields |-> plantOptimalConditions[k][f]]]

\* The table is a plain object literal, so a key that is not an own property
\* is looked up on Object.prototype before it reads as undefined.
ObjectPrototypeKeys ==
  { <<"c","o","n","s","t","r","u","c","t","o","r">>,
    <<"_","_","p","r","o","t","o","_","_">>,
    <<"t","o","S","t","r","i","n","g">>,
    <<"v","a","l","u","e","O","f">>,
    <<"h","a","s","O","w","n","P","r","o","p","e","r","t","y">> }

Undefined == [undefined |-> TRUE]
InheritedMember(key) == [inherited |-> key]

\* table[key] of JavaScript
PropertyGet(table, key) ==
  IF key \in DOMAIN table THEN table[key]
  ELSE IF key \in ObjectPrototypeKeys THEN InheritedMember(key)
  ELSE Undefined

\* table[plantType] || table['default']   (route.ts 387)
ResolveOptimalConditions(table, plantType) ==
  IF PropertyGet(table, plantType) # Undefined
  THEN PropertyGet(table, plantType)
  ELSE table[KeyDefault]

\* sensorData.plantType?.toLowerCase() || 'default'   (route.ts 386)
\* A present plantType that is not a string has no toLowerCase: TypeError.
PlantTypeThrows(sd) ==
  "plantType" \in DOMAIN sd /\ sd.plantType.type # "string"

ResolvePlantType(sd) ==
  IF "plantType" \notin DOMAIN sd THEN KeyDefault
  ELSE IF toLowerCase(sd.plantType.chars) = <<>> THEN KeyDefault
  ELSE toLowerCase(sd.plantType.chars)

(***************************************************************************)
(* Fallback assessment engine, 8-field variant (route.ts 337-462)          *)
(***************************************************************************)
\* const recommendations = []; let assessment = "..."   (route.ts 338-339)
InitialAssessment ==
  [assessment |-> "Conditions appear generally favorable",
   recommendations |-> <<>>]

\* recommendations.push(rec); assessment = headline
Fire(acc, rec, headline) ==
  [assessment |-> headline,
   recommendations |-> Append(acc.recommendations, rec)]

\* mutant: the acidity cutoff written 5.0 instead of 5.5
phAnalysisCutoffFive(acc, sd) ==
  IF Lt(sd, "ph", 50)
  THEN Fire(acc, "Add lime to increase soil pH level (currently too acidic)",
            "Soil is too acidic")
  ELSE IF Gt(sd, "ph", 75)
  THEN Fire(acc, "Add sulfur or organic matter to decrease soil pH (currently too alkaline)",
            "Soil is too alkaline")
  ELSE acc

phAnalysis(acc, sd) ==
  IF Lt(sd, "ph", 55)
  THEN Fire(acc, "Add lime to increase soil pH level (currently too acidic)",
            "Soil is too acidic")
  ELSE IF Gt(sd, "ph", 75)
  THEN Fire(acc, "Add sulfur or organic matter to decrease soil pH (currently too alkaline)",
            "Soil is too alkaline")
  ELSE acc

\* mutant: the upper cutoff excluded (>= 70 instead of > 70)
soilMoistureAnalysisInclusive(acc, sd) ==
  IF Lt(sd, "soilMoisture", 30)
  THEN Fire(acc, "Water plants thoroughly as soil moisture is low",
            "Soil moisture is insufficient")
  ELSE IF Gt(sd, "soilMoisture", 69)
  THEN Fire(acc, "Reduce watering to prevent root rot", "Soil is too wet")
  ELSE acc

soilMoistureAnalysis(acc, sd) ==
  IF Lt(sd, "soilMoisture", 30)
  THEN Fire(acc, "Water plants thoroughly as soil moisture is low",
            "Soil moisture is insufficient")
  ELSE IF Gt(sd, "soilMoisture", 70)
  THEN Fire(acc, "Reduce watering to prevent root rot", "Soil is too wet")
  ELSE acc

temperatureAnalysis(acc, sd) ==
  IF Lt(sd, "temperature", 15)
  THEN Fire(acc, "Consider using plant covers to protect from cold",
            "Temperature is too low for optimal growth")
  ELSE IF Gt(sd, "temperature", 30)
  THEN Fire(acc, "Provide shade during hottest parts of the day",
            "Temperature is too high for optimal growth")
  ELSE acc

lightAnalysis(acc, sd) ==
  IF Lt(sd, "lightIntensity", 10000)
  THEN Fire(acc, "Increase light exposure or consider artificial lighting",
            "Light intensity is insufficient")
  ELSE IF Gt(sd, "lightIntensity", 30000)
  THEN Fire(acc, "Provide some shading to prevent light stress",
            "Light intensity is excessive")
  ELSE acc

\* mutant: the low test written !(Nitrogen >= 80), which is true of undefined
nitrogenAnalysisNegated(acc, sd) ==
  IF ~("Nitrogen" \in DOMAIN sd /\ sd.Nitrogen >= 80)
  THEN Fire(acc, "Add a nitrogen-rich fertilizer to boost leaf growth.",
            "Nitrogen levels are low")
  ELSE IF Gt(sd, "Nitrogen", 250)
  THEN Fire(acc, "Reduce nitrogen application to prevent burn and encourage fruiting.",
            "Nitrogen levels are too high")
  ELSE acc

nitrogenAnalysis(acc, sd) ==
  IF Lt(sd, "Nitrogen", 80)
  THEN Fire(acc, "Add a nitrogen-rich fertilizer to boost leaf growth.",
            "Nitrogen levels are low")
  ELSE IF Gt(sd, "Nitrogen", 250)
  THEN Fire(acc, "Reduce nitrogen application to prevent burn and encourage fruiting.",
            "Nitrogen levels are too high")
  ELSE acc

phosphorusAnalysis(acc, sd) ==
  IF Lt(sd, "Phosphorus", 40)
  THEN Fire(acc, "Apply a phosphorus supplement to improve root and flower development.",
            "Phosphorus levels are low")
  ELSE IF Gt(sd, "Phosphorus", 100)
  THEN Fire(acc, "Avoid phosphorus fertilizers for now.",
            "Phosphorus levels are too high")
  ELSE acc

potassiumAnalysis(acc, sd) ==
  IF Lt(sd, "Potassium", 100)
  THEN Fire(acc, "Supplement with potassium to enhance overall plant vigor and disease resistance.",
            "Potassium levels are low")
  ELSE IF Gt(sd, "Potassium", 250)
  THEN Fire(acc, "Leach soil with water to reduce high potassium levels.",
            "Potassium levels are too high")
  ELSE acc

\* mutant: the generic recommendation is pushed whatever the list holds
monitorRegularlyAlways(acc) ==
  [acc EXCEPT !.recommendations =
     Append(acc.recommendations,
            "Conditions appear generally favorable. Monitor regularly.")]

\* if (recommendations.length === 0) recommendations.push(generic)
monitorRegularly(acc) ==
  IF Len(acc.recommendations) = 0
  THEN [acc EXCEPT !.recommendations =
          <<"Conditions appear generally favorable. Monitor regularly.">>]
  ELSE acc

\* mutant: the nutrient checks run before the four others
RunChecksNutrientsFirst(sd) ==
  monitorRegularly(
    lightAnalysis(
      temperatureAnalysis(
        soilMoistureAnalysis(
          phAnalysis(
            potassiumAnalysis(
              phosphorusAnalysis(
                nitrogenAnalysis(InitialAssessment, sd), sd), sd), sd), sd), sd), sd))

\* the seven checks in source order, then the generic recommendation
RunChecks(sd) ==
  monitorRegularly(
    potassiumAnalysis(
      phosphorusAnalysis(
        nitrogenAnalysis(
          lightAnalysis(
            temperatureAnalysis(
              soilMoistureAnalysis(
                phAnalysis(InitialAssessment, sd), sd), sd), sd), sd), sd), sd))

TypeError == [threw |-> "TypeError"]

getFallbackData(sd) ==
  IF PlantTypeThrows(sd) THEN TypeError
  ELSE [assessment |-> RunChecks(sd).assessment,
        problems |-> <<StringValue(UnableToGetAiAnalysisDueToApiIssues)>>,
        recommendations |-> RunChecks(sd).recommendations,
        optimalConditions |->
          ResolveOptimalConditions(plantOptimalConditions, ResolvePlantType(sd))]

(***************************************************************************)
(* Fallback assessment engine, 5-field variant (route.ts 12-98)            *)
(***************************************************************************)
InitialAssessment5 ==
  [assessment |-> "Conditions appear generally favorable",
   recommendations |-> <<>>]

phAnalysis5(acc, sd) ==
  IF Lt(sd, "ph", 55)
  THEN Fire(acc, "Add lime to increase soil pH level (currently too acidic)",
            "Soil is too acidic")
  ELSE IF Gt(sd, "ph", 75)
  THEN Fire(acc, "Add sulfur or organic matter to decrease soil pH (currently too alkaline)",
            "Soil is too alkaline")
  ELSE acc

soilMoistureAnalysis5(acc, sd) ==
  IF Lt(sd, "soilMoisture", 30)
  THEN Fire(acc, "Water plants thoroughly as soil moisture is low",
            "Soil moisture is insufficient")
  ELSE IF Gt(sd, "soilMoisture", 70)
  THEN Fire(acc, "Reduce watering to prevent root rot", "Soil is too wet")
  ELSE acc

\* mutant: the cold cutoff written 10 instead of 15
temperatureAnalysis5CutoffTen(acc, sd) ==
  IF Lt(sd, "temperature", 10)
  THEN Fire(acc, "Consider using plant covers to protect from cold",
            "Temperature is too low for optimal growth")
  ELSE IF Gt(sd, "temperature", 30)
  THEN Fire(acc, "Provide shade during hottest parts of the day",
            "Temperature is too high for optimal growth")
  ELSE acc

temperatureAnalysis5(acc, sd) ==
  IF Lt(sd, "temperature", 15)
  THEN Fire(acc, "Consider using plant covers to protect from cold",
            "Temperature is too low for optimal growth")
  ELSE IF Gt(sd, "temperature", 30)
  THEN Fire(acc, "Provide shade during hottest parts of the day",
            "Temperature is too high for optimal growth")
  ELSE acc

lightAnalysis5(acc, sd) ==
  IF Lt(sd, "lightIntensity", 10000)
  THEN Fire(acc, "Increase light exposure or consider artificial lighting",
            "Light intensity is insufficient")
  ELSE IF Gt(sd, "lightIntensity", 30000)
  THEN Fire(acc, "Provide some shading to prevent light stress",
            "Light intensity is excessive")
  ELSE acc

monitorRegularly5(acc) ==
  IF Len(acc.recommendations) = 0
  THEN [acc EXCEPT !.recommendations =
          <<"Conditions appear generally favorable. Monitor regularly.">>]
  ELSE acc

RunChecks5(sd) ==
  monitorRegularly5(
    lightAnalysis5(
      temperatureAnalysis5(
        soilMoistureAnalysis5(
          phAnalysis5(InitialAssessment5, sd), sd), sd), sd))

getFallbackData5(sd) ==
  IF PlantTypeThrows(sd) THEN TypeError
  ELSE [assessment |-> RunChecks5(sd).assessment,
        problems |-> <<StringValue(UnableToGetAiAnalysisDueToApiIssues)>>,
        recommendations |-> RunChecks5(sd).recommendations,
        optimalConditions |->
          ResolveOptimalConditions(plantOptimalConditions5, ResolvePlantType(sd))]

(***************************************************************************)
(* Inputs of the fallback engine                                           *)
(***************************************************************************)
\* each quantity just below, on, and just above its two cutoffs
PhValues == {54, 55, 75, 76}
SoilMoistureValues == {29, 30, 70, 71}
TemperatureValues == {14, 15, 30, 31}
LightValues == {9999, 10000, 30000, 30001}
NitrogenValues == {79, 80, 250, 251}
PhosphorusValues == {39, 40, 100, 101}
PotassiumValues == {99, 100, 250, 251}

PlantTypeStrings ==
  { <<>>, KeyTomato, KeyLettuce, KeyCarrot, KeyDefault,
    <<"T","O","M","A","T","O">>, <<"T","o","m","a","t","o">>,
    <<"T","o","m","a","t","o"," ","P","l","a","n","t">>,
    <<"k","u","m","q","u","a","t">>, <<"L","e","t","t","u","c","e">>,
    <<"c","o","n","s","t","r","u","c","t","o","r">>,
    <<"_","_","p","r","o","t","o","_","_">>,
    <<"t","o","S","t","r","i","n","g">> }

\* the five always-present readings
BaseReadings ==
  [temperature : TemperatureValues, humidity : {50},
   soilMoisture : SoilMoistureValues, ph : PhValues,
   lightIntensity : LightValues]

\* adds the fields of b to a
Merge(a, b) == [k \in DOMAIN a \cup DOMAIN b |-> IF k \in DOMAIN b THEN b[k] ELSE a[k]]

\* the nutrient fields: each present with a value, or absent
NutrientParts ==
  { Merge(Merge(n, p), k) :
      n \in {<<>>} \cup [Nitrogen : NitrogenValues],
      p \in {<<>>} \cup [Phosphorus : PhosphorusValues],
      k \in {<<>>} \cup [Potassium : PotassiumValues] }

PlantTypeParts ==
  {<<>>} \cup { [plantType |-> StringValue(s)] : s \in PlantTypeStrings }
         \cup { [plantType |-> NumberValue(5)] }

\* the scenario reading of the specification (NPK absent, tomato)
ScenarioReading ==
  [temperature |-> 12, humidity |-> 50, soilMoisture |-> 45, ph |-> 68,
   lightIntensity |-> 18000, plantType |-> StringValue(KeyTomato)]

FavorableReading ==
  [temperature |-> 22, humidity |-> 50, soilMoisture |-> 45, ph |-> 68,
   lightIntensity |-> 18000, Nitrogen |-> 150, Phosphorus |-> 60,
   Potassium |-> 200]

SensorReadings ==
  { Merge(Merge(b, n), [plantType |-> StringValue(KeyTomato)]) :
      b \in BaseReadings, n \in NutrientParts }
  \cup { Merge(FavorableReading, t) : t \in PlantTypeParts }
  \cup { Merge([ScenarioReading EXCEPT !.ph = 50], t) : t \in PlantTypeParts }
  \cup { ScenarioReading }

(***************************************************************************)
(* Specification of the fallback engine: an input is drawn, then each      *)
(* variant is applied to it.                                               *)
(***************************************************************************)
InitFallback ==
  /\ sensorData \in SensorReadings
  /\ fallbackResult = None
  /\ fallbackResult5 = None
  /\ WeatherIdle
  /\ RangeIdle
  /\ PostIdle
  /\ PageIdle

CallGetFallbackData ==
  /\ fallbackResult = None
  /\ fallbackResult' = getFallbackData(sensorData)
  /\ UNCHANGED <<sensorData, fallbackResult5>>
  /\ UNCHANGED <<weatherVars, rangeVars, postVars, pageVars>>

CallGetFallbackData5 ==
  /\ fallbackResult5 = None
  /\ fallbackResult5' = getFallbackData5(sensorData)
  /\ UNCHANGED <<sensorData, fallbackResult>>
  /\ UNCHANGED <<weatherVars, rangeVars, postVars, pageVars>>

NextFallback == CallGetFallbackData \/ CallGetFallbackData5

SpecFallback == InitFallback /\ [][NextFallback]_vars

\* the 8-field engine has returned a result (not thrown)
Returned == fallbackResult # None /\ fallbackResult # TypeError

(***************************************************************************)
(* Properties of the fallback engine                                       *)
(***************************************************************************)
LimeRecommendation == "Add lime to increase soil pH level (currently too acidic)"
SulfurRecommendation ==
  "Add sulfur or organic matter to decrease soil pH (currently too alkaline)"
GenericRecommendation == "Conditions appear generally favorable. Monitor regularly."

InSeq(x, seq) == \E i \in 1..Len(seq) : seq[i] = x

\* the quantity is present and strictly outside [lo, hi]
Outside(sd, field, lo, hi) ==
  field \in DOMAIN sd /\ (sd[field] < lo \/ sd[field] > hi)

\* the quantity is present and inside [lo, hi], bounds included
Within(sd, field, lo, hi) ==
  field \in DOMAIN sd /\ lo <= sd[field] /\ sd[field] <= hi

\* one of the six checks that follow the pH check fires
LaterCheckFires(sd) ==
  \/ Outside(sd, "soilMoisture", 30, 70)
  \/ Outside(sd, "temperature", 15, 30)
  \/ Outside(sd, "lightIntensity", 10000, 30000)
  \/ Outside(sd, "Nitrogen", 80, 250)
  \/ Outside(sd, "Phosphorus", 40, 100)
  \/ Outside(sd, "Potassium", 100, 250)

\* C1 as stated: with ph < 5.5 the assessment is the acidity headline and the
\* lime recommendation is listed, with ph > 7.5 the assessment is the
\* alkalinity headline, whatever the other fields are.
C1_Original ==
  Returned =>
    /\ sensorData.ph < 55 =>
         /\ fallbackResult.assessment = "Soil is too acidic"
         /\ InSeq(LimeRecommendation, fallbackResult.recommendations)
    /\ sensorData.ph > 75 =>
         fallbackResult.assessment = "Soil is too alkaline"

\* C1 amended: with ph < 5.5 the lime recommendation is listed (first), with
\* ph > 7.5 the sulfur recommendation is listed (first); the assessment is the
\* acidity (alkalinity) headline exactly when none of the six later checks
\* fires, since a later check overwrites the headline.
C1_PhRecommendationAndHeadline ==
  Returned =>
    /\ sensorData.ph < 55 =>
         /\ fallbackResult.recommendations[1] = LimeRecommendation
         /\ (fallbackResult.assessment = "Soil is too acidic")
              <=> ~LaterCheckFires(sensorData)
    /\ sensorData.ph > 75 =>
         /\ fallbackResult.recommendations[1] = SulfurRecommendation
         /\ (fallbackResult.assessment = "Soil is too alkaline")
              <=> ~LaterCheckFires(sensorData)

\* C1 witness: an acidic reading whose headline was overwritten by a later check
C1_Witness ==
  /\ Returned
  /\ sensorData.ph < 55
  /\ LaterCheckFires(sensorData)
  /\ fallbackResult.assessment # "Soil is too acidic"
  /\ InSeq(LimeRecommendation, fallbackResult.recommendations)

AllWithinCutoffs(sd) ==
  /\ Within(sd, "ph", 55, 75)
  /\ Within(sd, "soilMoisture", 30, 70)
  /\ Within(sd, "temperature", 15, 30)
  /\ Within(sd, "lightIntensity", 10000, 30000)
  /\ Within(sd, "Nitrogen", 80, 250)
  /\ Within(sd, "Phosphorus", 40, 100)
  /\ Within(sd, "Potassium", 100, 250)

\* C2: when all seven quantities lie within their cutoffs (bounds included)
\* the recommendation list is exactly the one generic recommendation and the
\* assessment is "Conditions appear generally favorable".
C2_FavorableWhenAllWithin ==
  (Returned /\ AllWithinCutoffs(sensorData)) =>
    /\ fallbackResult.recommendations = <<GenericRecommendation>>
    /\ fallbackResult.assessment = "Conditions appear generally favorable"

\* C2 witness: a reading with every quantity on one of its cutoffs was assessed
C2_Witness ==
  /\ Returned
  /\ AllWithinCutoffs(sensorData)
  /\ sensorData.ph = 75 /\ sensorData.soilMoisture = 30
  /\ sensorData.Nitrogen = 250 /\ sensorData.Potassium = 100

\* C3 as stated: optimalConditions is the profile of the lower-cased plantType
\* when that is one of the table's keys, and the default profile for every
\* other string and when plantType is absent or empty.
C3_ProfileResolution ==
  Returned =>
    fallbackResult.optimalConditions =
      IF "plantType" \in DOMAIN sensorData
           /\ toLowerCase(sensorData.plantType.chars) \in DOMAIN plantOptimalConditions
      THEN plantOptimalConditions[toLowerCase(sensorData.plantType.chars)]
      ELSE DefaultProfile

NutrientHeadlines ==
  {"Nitrogen levels are low", "Nitrogen levels are too high",
   "Phosphorus levels are low", "Phosphorus levels are too high",
   "Potassium levels are low", "Potassium levels are too high"}

NutrientRecommendations ==
  {"Add a nitrogen-rich fertilizer to boost leaf growth.",
   "Reduce nitrogen application to prevent burn and encourage fruiting.",
   "Apply a phosphorus supplement to improve root and flower development.",
   "Avoid phosphorus fertilizers for now.",
   "Supplement with potassium to enhance overall plant vigor and disease resistance.",
   "Leach soil with water to reduce high potassium levels."}

NutrientsAbsent(sd) ==
  DOMAIN sd \cap {"Nitrogen", "Phosphorus", "Potassium"} = {}

\* the headline the pH, soil-moisture, temperature and light rules give alone
FourRuleHeadline(sd) ==
  IF sd.lightIntensity > 30000 THEN "Light intensity is excessive"
  ELSE IF sd.lightIntensity < 10000 THEN "Light intensity is insufficient"
  ELSE IF sd.temperature > 30 THEN "Temperature is too high for optimal growth"
  ELSE IF sd.temperature < 15 THEN "Temperature is too low for optimal growth"
  ELSE IF sd.soilMoisture > 70 THEN "Soil is too wet"
  ELSE IF sd.soilMoisture < 30 THEN "Soil moisture is insufficient"
  ELSE IF sd.ph > 75 THEN "Soil is too alkaline"
  ELSE IF sd.ph < 55 THEN "Soil is too acidic"
  ELSE "Conditions appear generally favorable"

\* the number of recommendations those four rules give alone
FourRuleCount(sd) ==
  IF Cardinality({f \in {"ph", "soilMoisture", "temperature", "lightIntensity"} :
                    \/ f = "ph" /\ Outside(sd, f, 55, 75)
                    \/ f = "soilMoisture" /\ Outside(sd, f, 30, 70)
                    \/ f = "temperature" /\ Outside(sd, f, 15, 30)
                    \/ f = "lightIntensity" /\ Outside(sd, f, 10000, 30000)}) = 0
  THEN 1
  ELSE Cardinality({f \in {"ph", "soilMoisture", "temperature", "lightIntensity"} :
                    \/ f = "ph" /\ Outside(sd, f, 55, 75)
                    \/ f = "soilMoisture" /\ Outside(sd, f, 30, 70)
                    \/ f = "temperature" /\ Outside(sd, f, 15, 30)
                    \/ f = "lightIntensity" /\ Outside(sd, f, 10000, 30000)})

\* C7: with Nitrogen, Phosphorus and Potassium absent no nutrient rule fires
\* and the result is that of the pH, soil-moisture, temperature and light
\* rules alone; the scenario reading
\* yields "Temperature is too low for optimal growth" and the tomato profile,
\* in both variants of the engine.
C7_NutrientsAbsent ==
  /\ (Returned /\ NutrientsAbsent(sensorData)) =>
       /\ fallbackResult.assessment \notin NutrientHeadlines
       /\ \A i \in 1..Len(fallbackResult.recommendations) :
            fallbackResult.recommendations[i] \notin NutrientRecommendations
       /\ fallbackResult.assessment = FourRuleHeadline(sensorData)
       /\ Len(fallbackResult.recommendations) = FourRuleCount(sensorData)
  /\ (Returned /\ sensorData = ScenarioReading) =>
       /\ fallbackResult.assessment = "Temperature is too low for optimal growth"
       /\ fallbackResult.recommendations =
            <<"Consider using plant covers to protect from cold">>
       /\ fallbackResult.optimalConditions = TomatoProfile
  /\ (fallbackResult5 # None /\ sensorData = ScenarioReading) =>
       /\ fallbackResult5.assessment = "Temperature is too low for optimal growth"
       /\ fallbackResult5.optimalConditions = plantOptimalConditions5[KeyTomato]

\* C7 witness: both variants have assessed the scenario reading
C7_Witness ==
  /\ Returned
  /\ fallbackResult5 # None
  /\ sensorData = ScenarioReading
  /\ NutrientsAbsent(sensorData)

\* the seven quantities in the order the claim gives
CheckOrder ==
  <<"ph", "soilMoisture", "temperature", "lightIntensity",
    "Nitrogen", "Phosphorus", "Potassium">>

\* per quantity: the two cutoffs, and the headline and the recommendation of
\* a value below the lower and above the upper cutoff
CheckTable ==
  [ph |->
     [lo |-> 55, hi |-> 75,
      lowHeadline |-> "Soil is too acidic",
      highHeadline |-> "Soil is too alkaline",
      lowRec |-> LimeRecommendation, highRec |-> SulfurRecommendation],
   soilMoisture |->
     [lo |-> 30, hi |-> 70,
      lowHeadline |-> "Soil moisture is insufficient",
      highHeadline |-> "Soil is too wet",
      lowRec |-> "Water plants thoroughly as soil moisture is low",
      highRec |-> "Reduce watering to prevent root rot"],
   temperature |->
     [lo |-> 15, hi |-> 30,
      lowHeadline |-> "Temperature is too low for optimal growth",
      highHeadline |-> "Temperature is too high for optimal growth",
      lowRec |-> "Consider using plant covers to protect from cold",
      highRec |-> "Provide shade during hottest parts of the day"],
   lightIntensity |->
     [lo |-> 10000, hi |-> 30000,
      lowHeadline |-> "Light intensity is insufficient",
      highHeadline |-> "Light intensity is excessive",
      lowRec |-> "Increase light exposure or consider artificial lighting",
      highRec |-> "Provide some shading to prevent light stress"],
   Nitrogen |->
     [lo |-> 80, hi |-> 250,
      lowHeadline |-> "Nitrogen levels are low",
      highHeadline |-> "Nitrogen levels are too high",
      lowRec |-> "Add a nitrogen-rich fertilizer to boost leaf growth.",
      highRec |-> "Reduce nitrogen application to prevent burn and encourage fruiting."],
   Phosphorus |->
     [lo |-> 40, hi |-> 100,
      lowHeadline |-> "Phosphorus levels are low",
      highHeadline |-> "Phosphorus levels are too high",
      lowRec |-> "Apply a phosphorus supplement to improve root and flower development.",
      highRec |-> "Avoid phosphorus fertilizers for now."],
   Potassium |->
     [lo |-> 100, hi |-> 250,
      lowHeadline |-> "Potassium levels are low",
      highHeadline |-> "Potassium levels are too high",
      lowRec |-> "Supplement with potassium to enhance overall plant vigor and disease resistance.",
      highRec |-> "Leach soil with water to reduce high potassium levels."]]

\* the quantities strictly outside their cutoffs, in the claim's order
FiredChecks(sd) ==
  SelectSeq(CheckOrder,
            LAMBDA f : Outside(sd, f, CheckTable[f].lo, CheckTable[f].hi))

HeadlineOf(sd, f) ==
  IF sd[f] < CheckTable[f].lo THEN CheckTable[f].lowHeadline
  ELSE CheckTable[f].highHeadline

RecommendationOf(sd, f) ==
  IF sd[f] < CheckTable[f].lo THEN CheckTable[f].lowRec
  ELSE CheckTable[f].highRec

\* C15: the checks run in the order pH, soil moisture, temperature, light,
\* nitrogen, phosphorus, potassium; the assessment is the headline of the
\* last check that fired, and it is "Conditions appear generally favorable"
\* exactly when no check fired.
C15_LastFiredHeadline ==
  Returned =>
    /\ FiredChecks(sensorData) # <<>> =>
         fallbackResult.assessment =
           HeadlineOf(sensorData,
                      FiredChecks(sensorData)[Len(FiredChecks(sensorData))])
    /\ (fallbackResult.assessment = "Conditions appear generally favorable")
         <=> FiredChecks(sensorData) = <<>>

\* C15 witness: pH, temperature and phosphorus fired and the phosphorus
\* headline, the last of them, was returned
C15_Witness ==
  /\ Returned
  /\ FiredChecks(sensorData) = <<"ph", "temperature", "Phosphorus">>
  /\ fallbackResult.assessment = "Phosphorus levels are too high"

\* C16: the recommendation list holds exactly one fixed string per quantity
\* strictly outside its cutoffs, in the order of the checks; the generic
\* recommendation is present exactly when no check fired, and is then the
\* only element; the list has between 1 and 7 elements.
C16_RecommendationList ==
  Returned =>
    /\ FiredChecks(sensorData) # <<>> =>
         fallbackResult.recommendations =
           [i \in 1..Len(FiredChecks(sensorData)) |->
              RecommendationOf(sensorData, FiredChecks(sensorData)[i])]
    /\ InSeq(GenericRecommendation, fallbackResult.recommendations)
         <=> FiredChecks(sensorData) = <<>>
    /\ FiredChecks(sensorData) = <<>> =>
         fallbackResult.recommendations = <<GenericRecommendation>>
    /\ Len(fallbackResult.recommendations) \in 1..7

\* C16 witness: all seven quantities were outside their cutoffs and seven
\* recommendations were returned
C16_Witness ==
  /\ Returned
  /\ Len(FiredChecks(sensorData)) = 7
  /\ Len(fallbackResult.recommendations) = 7
  /\ fallbackResult.recommendations[7] =
       "Leach soil with water to reduce high potassium levels."

\* C16 witness: nothing fired and the generic recommendation stands alone
C16_WitnessGeneric ==
  /\ Returned
  /\ FiredChecks(sensorData) = <<>>
  /\ fallbackResult.recommendations = <<GenericRecommendation>>

Returned5 == fallbackResult5 # None /\ fallbackResult5 # TypeError

NutrientsWithin(sd) ==
  /\ Within(sd, "Nitrogen", 80, 250)
  /\ Within(sd, "Phosphorus", 40, 100)
  /\ Within(sd, "Potassium", 100, 250)

\* C20: on the same reading the two variants of the fallback engine return
\* the same assessment, problems and recommendations when Nitrogen,
\* Phosphorus and Potassium are absent, and also when they are present and
\* within their cutoffs.
C20_VariantsAgree ==
  (Returned /\ Returned5
     /\ (NutrientsAbsent(sensorData) \/ NutrientsWithin(sensorData))) =>
    /\ fallbackResult5.assessment = fallbackResult.assessment
    /\ fallbackResult5.problems = fallbackResult.problems
    /\ fallbackResult5.recommendations = fallbackResult.recommendations

\* C20 witness: nutrients present and within cutoffs, a cold acidic reading
\* assessed by both variants
C20_Witness ==
  /\ Returned /\ Returned5
  /\ NutrientsWithin(sensorData)
  /\ sensorData.ph < 55 /\ sensorData.temperature < 15
  /\ fallbackResult5.assessment = "Temperature is too low for optimal growth"
  /\ Len(fallbackResult5.recommendations) = 2

\* C20 witness: nutrients absent, both variants returned
C20_WitnessAbsent ==
  /\ Returned /\ Returned5
  /\ NutrientsAbsent(sensorData)
  /\ sensorData.lightIntensity > 30000

(***************************************************************************)
(* Weather impact classifier (route.ts 260-334)                            *)
(***************************************************************************)
\* const issues = [], recommendations = [], weatherAlerts = [];
\* let riskLevel = 'low'   (route.ts 261-264)
InitialImpact ==
  [riskLevel |-> "low", issues |-> <<>>, recommendations |-> <<>>,
   weatherAlerts |-> <<>>]

\* riskLevel === 'high' ? 'high' : 'medium'
AtLeastMedium(riskLevel) == IF riskLevel = "high" THEN "high" ELSE "medium"

\* mutant: the recommendation of an issue is not pushed
AddIssueWithoutRecommendation(imp, issue, rec, risk) ==
  [imp EXCEPT !.issues = Append(@, issue),
              !.riskLevel = risk]

\* issues.push, recommendations.push, riskLevel = risk
AddIssue(imp, issue, rec, risk) ==
  [imp EXCEPT !.issues = Append(@, issue),
              !.recommendations = Append(@, rec),
              !.riskLevel = risk]

\* the same with weatherAlerts.push
AddAlert(imp, issue, alert, rec, risk) ==
  [AddIssue(imp, issue, rec, risk) EXCEPT !.weatherAlerts = Append(@, alert)]

\* route.ts 271-285, on the user's temperature
TemperatureRule(imp, wd, sd) ==
  IF Lt(sd, "temperature", 5)
  THEN AddAlert(imp, "Frost risk - temperatures below 5°C",
                "FROST WARNING: Protect plants from freezing temperatures",
                "Cover plants with frost cloth or move indoors", "high")
  ELSE IF Gt(sd, "temperature", 35)
  THEN AddAlert(imp, "Heat stress - temperatures above 35°C",
                "HEAT WARNING: High temperatures may stress plants",
                "Increase watering frequency and provide shade", "high")
  ELSE IF Lt(sd, "temperature", 10) \/ Gt(sd, "temperature", 30)
  THEN AddIssue(imp, "Suboptimal temperature range",
                "Monitor plant health closely due to temperature stress", "medium")
  ELSE imp

\* mutant: the humidity rule assigns 'medium' without looking at the risk
HumidityRuleAssignsMedium(imp, wd, sd) ==
  IF Gt(sd, "humidity", 90)
  THEN AddIssue(imp, "Excessive humidity - risk of fungal diseases",
                "Improve air circulation and avoid overhead watering", "medium")
  ELSE IF Lt(sd, "humidity", 30)
  THEN AddIssue(imp, "Low humidity - plants may dry out quickly",
                "Increase watering frequency and consider misting", "medium")
  ELSE imp

\* route.ts 288-296, on the user's humidity
HumidityRule(imp, wd, sd) ==
  IF Gt(sd, "humidity", 90)
  THEN AddIssue(imp, "Excessive humidity - risk of fungal diseases",
                "Improve air circulation and avoid overhead watering",
                AtLeastMedium(imp.riskLevel))
  ELSE IF Lt(sd, "humidity", 30)
  THEN AddIssue(imp, "Low humidity - plants may dry out quickly",
                "Increase watering frequency and consider misting",
                AtLeastMedium(imp.riskLevel))
  ELSE imp

\* mutant: the wind rule assigns 'medium' without looking at the risk
WindRuleAssignsMedium(imp, wd, sd) ==
  IF Gt(wd, "windSpeed", 15)
  THEN AddAlert(imp, "High wind speeds - may damage plants",
                "WIND WARNING: Strong winds may damage plants",
                "Stake tall plants and protect from wind damage", "medium")
  ELSE imp

\* route.ts 299-304
WindRule(imp, wd, sd) ==
  IF Gt(wd, "windSpeed", 15)
  THEN AddAlert(imp, "High wind speeds - may damage plants",
                "WIND WARNING: Strong winds may damage plants",
                "Stake tall plants and protect from wind damage",
                AtLeastMedium(imp.riskLevel))
  ELSE imp

\* mutant: the pressure rule raises to "at least medium" like its neighbours
PressureRuleAtLeastMedium(imp, wd, sd) ==
  IF Lt(wd, "pressure", 1000)
  THEN AddAlert(imp, "Low atmospheric pressure - storm conditions possible",
                "STORM WARNING: Low pressure indicates potential severe weather",
                "Secure loose items and prepare for heavy rain",
                AtLeastMedium(imp.riskLevel))
  ELSE imp

\* route.ts 307-312
PressureRule(imp, wd, sd) ==
  IF Lt(wd, "pressure", 1000)
  THEN AddAlert(imp, "Low atmospheric pressure - storm conditions possible",
                "STORM WARNING: Low pressure indicates potential severe weather",
                "Secure loose items and prepare for heavy rain", "high")
  ELSE imp

\* route.ts 315-319; an absent (null, undefined) or zero uvIndex is falsy
UvRule(imp, wd, sd) ==
  IF "uvIndex" \in DOMAIN wd /\ wd.uvIndex # 0 /\ wd.uvIndex > 8
  THEN AddIssue(imp, "High UV index - may cause sunburn on plants",
                "Provide shade during peak sun hours",
                AtLeastMedium(imp.riskLevel))
  ELSE imp

\* mutant: the visibility rule is reached only while the risk is not high
VisibilityRuleUnlessHigh(imp, wd, sd) ==
  IF imp.riskLevel # "high" /\ Lt(wd, "visibility", 1)
  THEN AddIssue(imp, "Poor visibility - foggy conditions may affect photosynthesis",
                "Monitor for signs of reduced light absorption",
                AtLeastMedium(imp.riskLevel))
  ELSE imp

\* route.ts 322-326
VisibilityRule(imp, wd, sd) ==
  IF Lt(wd, "visibility", 1)
  THEN AddIssue(imp, "Poor visibility - foggy conditions may affect photosynthesis",
                "Monitor for signs of reduced light absorption",
                AtLeastMedium(imp.riskLevel))
  ELSE imp

\* the whole function: the six rules in source order
analyzeWeatherImpact(wd, sd) ==
  VisibilityRule(
    UvRule(
      PressureRule(
        WindRule(
          HumidityRule(
            TemperatureRule(InitialImpact, wd, sd), wd, sd), wd, sd), wd, sd), wd, sd), wd, sd)

(***************************************************************************)
(* Inputs of the classifier                                                *)
(***************************************************************************)
UserTemperatures == {4, 5, 9, 10, 20, 30, 31, 35, 36}
UserHumidities == {29, 30, 50, 90, 91}
WindSpeeds == {5, 15, 16}
Pressures == {995, 999, 1000}
UvIndexes == {0, 3, 8, 9}
Visibilities == {0, 1, 10}

WeatherSnapshots ==
  { Merge([windSpeed |-> w, pressure |-> p, visibility |-> v], u) :
      w \in WindSpeeds, p \in Pressures, v \in Visibilities,
      u \in {<<>>} \cup [uvIndex : UvIndexes] }

WeatherInputs ==
  [weatherData : WeatherSnapshots,
   sensorData : [temperature : UserTemperatures, humidity : UserHumidities]]

(***************************************************************************)
(* Specification of the classifier: an input is drawn and the rules are    *)
(* evaluated one after the other, as the function body does.               *)
(***************************************************************************)
InitWeather ==
  /\ weatherInput \in WeatherInputs
  /\ pc = "temperature"
  /\ impact = InitialImpact
  /\ FallbackIdle
  /\ RangeIdle
  /\ PostIdle
  /\ PageIdle

\* one action per rule of the body: evaluate it and move to the next
EvalTemperature ==
  /\ pc = "temperature"
  /\ impact' = TemperatureRule(impact, weatherInput.weatherData, weatherInput.sensorData)
  /\ pc' = "humidity"
  /\ UNCHANGED weatherInput
  /\ UNCHANGED <<fallbackVars, rangeVars, postVars, pageVars>>

EvalHumidity ==
  /\ pc = "humidity"
  /\ impact' = HumidityRule(impact, weatherInput.weatherData, weatherInput.sensorData)
  /\ pc' = "wind"
  /\ UNCHANGED weatherInput
  /\ UNCHANGED <<fallbackVars, rangeVars, postVars, pageVars>>

EvalWind ==
  /\ pc = "wind"
  /\ impact' = WindRule(impact, weatherInput.weatherData, weatherInput.sensorData)
  /\ pc' = "pressure"
  /\ UNCHANGED weatherInput
  /\ UNCHANGED <<fallbackVars, rangeVars, postVars, pageVars>>

EvalPressure ==
  /\ pc = "pressure"
  /\ impact' = PressureRule(impact, weatherInput.weatherData, weatherInput.sensorData)
  /\ pc' = "uv"
  /\ UNCHANGED weatherInput
  /\ UNCHANGED <<fallbackVars, rangeVars, postVars, pageVars>>

EvalUv ==
  /\ pc = "uv"
  /\ impact' = UvRule(impact, weatherInput.weatherData, weatherInput.sensorData)
  /\ pc' = "visibility"
  /\ UNCHANGED weatherInput
  /\ UNCHANGED <<fallbackVars, rangeVars, postVars, pageVars>>

EvalVisibility ==
  /\ pc = "visibility"
  /\ impact' = VisibilityRule(impact, weatherInput.weatherData, weatherInput.sensorData)
  /\ pc' = "done"
  /\ UNCHANGED weatherInput
  /\ UNCHANGED <<fallbackVars, rangeVars, postVars, pageVars>>

NextWeather ==
  \/ EvalTemperature
  \/ EvalHumidity
  \/ EvalWind
  \/ EvalPressure
  \/ EvalUv
  \/ EvalVisibility

SpecWeather == InitWeather /\ [][NextWeather]_vars

(***************************************************************************)
(* Properties of the classifier                                            *)
(***************************************************************************)
RiskRank(r) == CASE r = "low" -> 0 [] r = "medium" -> 1 [] r = "high" -> 2

StormIssue == "Low atmospheric pressure - storm conditions possible"
StormWarning == "STORM WARNING: Low pressure indicates potential severe weather"

\* C4: the risk level starts at low, no rule evaluation lowers it (so once
\* high it stays high), and an input with user temperature < 5 ends at high.
C4_RiskMonotonic ==
  /\ (pc = "temperature" => impact.riskLevel = "low")
  /\ [][RiskRank(impact'.riskLevel) >= RiskRank(impact.riskLevel)]_vars
  /\ []((pc = "done" /\ weatherInput.sensorData.temperature < 5)
          => impact.riskLevel = "high")

\* C4 witness: a frost input that also matched a later "at least medium" rule
\* has been evaluated to the end
C4_Witness ==
  /\ pc = "done"
  /\ weatherInput.sensorData.temperature < 5
  /\ weatherInput.sensorData.humidity > 90
  /\ weatherInput.weatherData.windSpeed > 15
  /\ weatherInput.weatherData.visibility < 1
  /\ impact.riskLevel = "high"

\* only the pressure rule matches
OnlyPressureMatches(in) ==
  /\ in.weatherData.pressure < 1000
  /\ 10 <= in.sensorData.temperature /\ in.sensorData.temperature <= 30
  /\ 30 <= in.sensorData.humidity /\ in.sensorData.humidity <= 90
  /\ in.weatherData.windSpeed <= 15
  /\ ("uvIndex" \in DOMAIN in.weatherData => in.weatherData.uvIndex <= 8)
  /\ in.weatherData.visibility >= 1

\* C5: with pressure < 1000 and no other rule matching the result has
\* riskLevel high, the storm issue as its only issue and the storm warning as
\* its only alert.
C5_PressureOnly ==
  (pc = "done" /\ OnlyPressureMatches(weatherInput)) =>
    /\ impact.riskLevel = "high"
    /\ impact.issues = <<StormIssue>>
    /\ impact.weatherAlerts = <<StormWarning>>

\* C5 witness: the scenario of the specification has been evaluated
C5_Witness ==
  /\ pc = "done"
  /\ weatherInput =
       [weatherData |-> [windSpeed |-> 5, pressure |-> 995, visibility |-> 10,
                         uvIndex |-> 3],
        sensorData |-> [temperature |-> 20, humidity |-> 50]]
  /\ impact.riskLevel = "high"

\* the conditions of the claim on an input of the classifier
HighCondition(in) ==
  \/ in.sensorData.temperature < 5
  \/ in.sensorData.temperature > 35
  \/ in.weatherData.pressure < 1000

UvMatches(in) ==
  "uvIndex" \in DOMAIN in.weatherData /\ in.weatherData.uvIndex > 8

MediumCondition(in) ==
  \/ in.sensorData.temperature < 10
  \/ in.sensorData.temperature > 30
  \/ in.sensorData.humidity > 90
  \/ in.sensorData.humidity < 30
  \/ in.weatherData.windSpeed > 15
  \/ UvMatches(in)
  \/ in.weatherData.visibility < 1

\* the rule about to be evaluated matches the input
RuleMatches(in, rule) ==
  CASE rule = "humidity" ->
         in.sensorData.humidity > 90 \/ in.sensorData.humidity < 30
    [] rule = "wind" -> in.weatherData.windSpeed > 15
    [] rule = "uv" -> UvMatches(in)
    [] rule = "visibility" -> in.weatherData.visibility < 1
    [] OTHER -> FALSE

\* C17: the final riskLevel is high iff user temperature < 5 or > 35 or
\* pressure < 1000; medium iff none of those holds and one of temperature
\* < 10 or > 30, humidity > 90 or < 30, wind > 15, uvIndex present and > 8,
\* visibility < 1 holds; low otherwise. The humidity, wind, UV and
\* visibility rules raise the risk to at least medium and never change
\* high; the pressure rule sets high unconditionally.
C17_FinalRiskLevel ==
  /\ [](pc = "done" =>
          /\ (impact.riskLevel = "high") <=> HighCondition(weatherInput)
          /\ (impact.riskLevel = "medium") <=>
               (~HighCondition(weatherInput) /\ MediumCondition(weatherInput))
          /\ (impact.riskLevel = "low") <=>
               (~HighCondition(weatherInput) /\ ~MediumCondition(weatherInput)))
  /\ [][(pc \in {"humidity", "wind", "uv", "visibility"}) =>
          /\ impact.riskLevel = "high" => impact'.riskLevel = "high"
          /\ RuleMatches(weatherInput, pc) => impact'.riskLevel \in {"medium", "high"}
          /\ ~RuleMatches(weatherInput, pc) => impact'.riskLevel = impact.riskLevel]_vars
  /\ [][(pc = "pressure" /\ weatherInput.weatherData.pressure < 1000) =>
          impact'.riskLevel = "high"]_vars

\* C17 witness: a frost input with strong wind, humid air, high UV and fog
\* and normal pressure ended at high
C17_Witness ==
  /\ pc = "done"
  /\ weatherInput.sensorData.temperature < 5
  /\ weatherInput.sensorData.humidity < 30
  /\ weatherInput.weatherData.windSpeed > 15
  /\ weatherInput.weatherData.pressure = 1000
  /\ UvMatches(weatherInput)
  /\ impact.riskLevel = "high"

\* C17 witness: only the UV rule matched and the result is medium
C17_WitnessMedium ==
  /\ pc = "done"
  /\ ~HighCondition(weatherInput)
  /\ UvMatches(weatherInput)
  /\ weatherInput.sensorData.temperature = 20
  /\ weatherInput.sensorData.humidity = 50
  /\ weatherInput.weatherData.windSpeed <= 15
  /\ weatherInput.weatherData.visibility >= 1
  /\ impact.riskLevel = "medium"

\* the issue and the alert each rule contributes on an input, per the claim
TemperatureIssues(in) ==
  IF in.sensorData.temperature < 5
  THEN <<"Frost risk - temperatures below 5°C">>
  ELSE IF in.sensorData.temperature > 35
  THEN <<"Heat stress - temperatures above 35°C">>
  ELSE IF in.sensorData.temperature < 10 \/ in.sensorData.temperature > 30
  THEN <<"Suboptimal temperature range">>
  ELSE <<>>

HumidityIssues(in) ==
  IF in.sensorData.humidity > 90
  THEN <<"Excessive humidity - risk of fungal diseases">>
  ELSE IF in.sensorData.humidity < 30
  THEN <<"Low humidity - plants may dry out quickly">>
  ELSE <<>>

WindIssues(in) ==
  IF in.weatherData.windSpeed > 15
  THEN <<"High wind speeds - may damage plants">> ELSE <<>>

PressureIssues(in) ==
  IF in.weatherData.pressure < 1000 THEN <<StormIssue>> ELSE <<>>

UvIssues(in) ==
  IF UvMatches(in)
  THEN <<"High UV index - may cause sunburn on plants">> ELSE <<>>

VisibilityIssues(in) ==
  IF in.weatherData.visibility < 1
  THEN <<"Poor visibility - foggy conditions may affect photosynthesis">>
  ELSE <<>>

TemperatureAlerts(in) ==
  IF in.sensorData.temperature < 5
  THEN <<"FROST WARNING: Protect plants from freezing temperatures">>
  ELSE IF in.sensorData.temperature > 35
  THEN <<"HEAT WARNING: High temperatures may stress plants">>
  ELSE <<>>

WindAlerts(in) ==
  IF in.weatherData.windSpeed > 15
  THEN <<"WIND WARNING: Strong winds may damage plants">> ELSE <<>>

PressureAlerts(in) ==
  IF in.weatherData.pressure < 1000 THEN <<StormWarning>> ELSE <<>>

\* C18: every rule is evaluated whatever the earlier ones did: issues is
\* exactly the issue strings of the matching rules in the order temperature,
\* humidity, wind, pressure, UV, visibility; weatherAlerts is exactly the
\* alerts of the matching frost/heat, wind and pressure rules in that order;
\* the suboptimal-temperature, humidity, UV and visibility rules add no
\* alert, and an absent UV index adds no issue.
C18_IssuesAndAlerts ==
  pc = "done" =>
    /\ impact.issues =
         TemperatureIssues(weatherInput) \o HumidityIssues(weatherInput)
           \o WindIssues(weatherInput) \o PressureIssues(weatherInput)
           \o UvIssues(weatherInput) \o VisibilityIssues(weatherInput)
    /\ impact.weatherAlerts =
         TemperatureAlerts(weatherInput) \o WindAlerts(weatherInput)
           \o PressureAlerts(weatherInput)
    /\ "uvIndex" \notin DOMAIN weatherInput.weatherData =>
         ~InSeq("High UV index - may cause sunburn on plants", impact.issues)

\* C18 witness: all six rules matched; six issues and three alerts
C18_Witness ==
  /\ pc = "done"
  /\ weatherInput.sensorData.temperature > 35
  /\ weatherInput.sensorData.humidity > 90
  /\ Len(impact.issues) = 6
  /\ impact.issues[6] = "Poor visibility - foggy conditions may affect photosynthesis"
  /\ Len(impact.weatherAlerts) = 3

\* C18 witness: suboptimal temperature, dry air and fog without a UV
\* reading: three issues and no alert
C18_WitnessNoAlert ==
  /\ pc = "done"
  /\ "uvIndex" \notin DOMAIN weatherInput.weatherData
  /\ Len(impact.issues) = 3
  /\ impact.weatherAlerts = <<>>

\* C21: every result of analyzeWeatherImpact has riskLevel low if and only
\* if issues is empty, exactly as many recommendations as issues, and no
\* more alerts than issues (at most 3 alerts, at most 6 issues).
C21_ResultShape ==
  pc = "done" =>
    /\ (impact.riskLevel = "low") <=> (impact.issues = <<>>)
    /\ Len(impact.recommendations) = Len(impact.issues)
    /\ Len(impact.weatherAlerts) <= Len(impact.issues)
    /\ Len(impact.weatherAlerts) <= 3
    /\ Len(impact.issues) <= 6

\* C21 witness: a heat input with strong wind, low pressure, high UV, humid
\* air and fog: six issues, six recommendations, three alerts
C21_Witness ==
  /\ pc = "done"
  /\ impact.riskLevel = "high"
  /\ Len(impact.issues) = 6
  /\ Len(impact.recommendations) = 6
  /\ Len(impact.weatherAlerts) = 3
  /\ impact.recommendations[1] = "Increase watering frequency and provide shade"

\* C21 witness: no rule matched: low risk and empty lists
C21_WitnessLow ==
  /\ pc = "done"
  /\ impact.riskLevel = "low"
  /\ impact.issues = <<>>
  /\ impact.recommendations = <<>>
  /\ impact.weatherAlerts = <<>>

(***************************************************************************)
(* Optimal-range parser and status classifier (page.tsx 7-26)              *)
(***************************************************************************)
Digits == <<"0","1","2","3","4","5","6","7","8","9">>

\* \d and \s of the regular expression
IsDigit(c) == \E k \in 1..10 : Digits[k] = c
IsSpace(c) == c \in {" ", "\t", "\n", "\r"}

DigitValue(c) == (CHOOSE k \in 1..10 : Digits[k] = c) - 1

\* the index after the longest run of digits (of spaces) that starts at i
RECURSIVE DigitsEnd(_, _)
DigitsEnd(s, i) ==
  IF i <= Len(s) /\ IsDigit(s[i]) THEN DigitsEnd(s, i + 1) ELSE i

RECURSIVE SpacesEnd(_, _)
SpacesEnd(s, i) ==
  IF i <= Len(s) /\ IsSpace(s[i]) THEN SpacesEnd(s, i + 1) ELSE i

\* mutant: the pattern without the optional decimals, (\d+)
NumberEndNoDecimals(s, i) == DigitsEnd(s, i)

\* \d+(?:\.\d+)? matched greedily from a digit at i: the index after it
NumberEnd(s, i) ==
  IF /\ DigitsEnd(s, i) + 1 <= Len(s)
     /\ s[DigitsEnd(s, i)] = "."
     /\ IsDigit(s[DigitsEnd(s, i) + 1])
  THEN DigitsEnd(s, DigitsEnd(s, i) + 1)
  ELSE DigitsEnd(s, i)

\* where the dash and the second number must start for a match that begins at i
DashAt(s, i) == SpacesEnd(s, NumberEnd(s, i))
SecondAt(s, i) == SpacesEnd(s, DashAt(s, i) + 1)

\* the expression (\d+(?:\.\d+)?)\s*-\s*(\d+(?:\.\d+)?) matches starting at i.
\* Every quantifier is greedy and none can give back: after a shorter run of
\* digits or spaces the next character is again a digit or a space.
MatchesAt(s, i) ==
  /\ i <= Len(s) /\ IsDigit(s[i])
  /\ DashAt(s, i) <= Len(s) /\ s[DashAt(s, i)] = "-"
  /\ SecondAt(s, i) <= Len(s) /\ IsDigit(s[SecondAt(s, i)])

\* String.prototype.match without the g flag: the leftmost match, or null
HasMatch(s) == \E i \in 1..Len(s) : MatchesAt(s, i)
MatchStart(s) ==
  CHOOSE i \in 1..Len(s) :
    MatchesAt(s, i) /\ \A j \in 1..(i - 1) : ~MatchesAt(s, j)

\* match[1] and match[2]
Group1(s) == SubSeq(s, MatchStart(s), NumberEnd(s, MatchStart(s)) - 1)
Group2(s) ==
  SubSeq(s, SecondAt(s, MatchStart(s)),
         NumberEnd(s, SecondAt(s, MatchStart(s))) - 1)

\* A number is the fraction n/d with d a power of ten and no common factor
\* ten, so that equal numbers are equal records (6.0 and 6 are both 6/1).
RECURSIVE Normalize(_)
Normalize(x) ==
  IF x.d > 1 /\ x.n % 10 = 0 THEN Normalize([n |-> x.n \div 10, d |-> x.d \div 10])
  ELSE x

\* parseFloat on the text of a group: digits, optionally "." and digits
RECURSIVE ParseDigits(_, _, _)
ParseDigits(t, i, acc) ==
  IF i > Len(t) THEN Normalize(acc)
  ELSE IF t[i] = "." THEN ParseDigits(t, i + 1, acc)
  ELSE ParseDigits(t, i + 1,
         [n |-> acc.n * 10 + DigitValue(t[i]),
          d |-> IF \E j \in 1..(i - 1) : t[j] = "." THEN acc.d * 10 ELSE acc.d])

parseFloat(t) == ParseDigits(t, 1, [n |-> 0, d |-> 1])

Null == [null |-> TRUE]

parseOptimalRange(optimalStr) ==
  IF HasMatch(optimalStr)
  THEN [min |-> parseFloat(Group1(optimalStr)),
        max |-> parseFloat(Group2(optimalStr))]
  ELSE Null

\* a < b on numbers
Less(a, b) == a.n * b.d < b.n * a.d

getConditionStatus(value, range) ==
  IF range = Null THEN "optimal"
  ELSE IF Less(value, range.min) THEN "low"
  ELSE IF Less(range.max, value) THEN "high"
  ELSE "optimal"

\* x || null on a number: zero is falsy
OrNull(value) == IF value.n = 0 THEN Null ELSE value

\* the status the result view gives a displayed quantity (page.tsx 328-370):
\* currentValue = x || null, then getConditionStatus unless it is null
ConditionBadge(value, optimalStr) ==
  [value |-> value,
   currentValue |-> OrNull(value),
   status |-> IF OrNull(value) # Null
              THEN getConditionStatus(OrNull(value), parseOptimalRange(optimalStr))
              ELSE "optimal"]

(***************************************************************************)
(* Inputs of the parser                                                    *)
(***************************************************************************)
MaxRangeLen == 5

RangeAlphabet == {"0", "1", ".", "-", " ", "%"}

\* every string over the alphabet up to the bound
BoundedStrings == UNION { [1..k -> RangeAlphabet] : k \in 0..MaxRangeLen }

\* every range string of the threshold table
TableStrings ==
  { plantOptimalConditions[k][f] :
      k \in DOMAIN plantOptimalConditions, f \in DOMAIN DefaultProfile }

OptimalStrings == BoundedStrings \cup TableStrings

CurrentValues ==
  { [n |-> -5, d |-> 1], [n |-> 0, d |-> 1], [n |-> 1, d |-> 2],
    [n |-> 1, d |-> 1], [n |-> 68, d |-> 10], [n |-> 18, d |-> 1],
    [n |-> 26, d |-> 1], [n |-> 40000, d |-> 1] }

\* the current values of displayed quantities: readings of the form and of
\* the weather service
RenderedValues ==
  { [n |-> -5, d |-> 1], [n |-> 0, d |-> 1], [n |-> 18, d |-> 1],
    [n |-> 26, d |-> 1] }

(***************************************************************************)
(* Specification of the range helpers: a string is drawn and parsed, then  *)
(* a current value is classified against the parsed range, as the result   *)
(* view does for each displayed quantity.                                  *)
(***************************************************************************)
InitRange ==
  /\ optimalString \in OptimalStrings
  /\ optimalRange = None
  /\ currentValue = None
  /\ conditionStatus = "none"
  /\ badge = None
  /\ FallbackIdle
  /\ WeatherIdle
  /\ PostIdle
  /\ PageIdle

CallParseOptimalRange ==
  /\ optimalRange = None
  /\ optimalRange' = parseOptimalRange(optimalString)
  /\ UNCHANGED <<optimalString, currentValue, conditionStatus, badge>>
  /\ UNCHANGED <<fallbackVars, weatherVars, postVars, pageVars>>

CallGetConditionStatus ==
  /\ optimalRange # None
  /\ conditionStatus = "none"
  /\ badge = None
  /\ \E v \in CurrentValues :
       /\ currentValue' = v
       /\ conditionStatus' = getConditionStatus(v, optimalRange)
  /\ UNCHANGED <<optimalString, optimalRange, badge>>
  /\ UNCHANGED <<fallbackVars, weatherVars, postVars, pageVars>>

\* the result view renders one quantity: it parses the range string and
\* derives the status of the current value
RenderCondition ==
  /\ optimalRange = None
  /\ badge = None
  /\ optimalRange' = parseOptimalRange(optimalString)
  /\ \E v \in RenderedValues : badge' = ConditionBadge(v, optimalString)
  /\ UNCHANGED <<optimalString, currentValue, conditionStatus>>
  /\ UNCHANGED <<fallbackVars, weatherVars, postVars, pageVars>>

NextRange == CallParseOptimalRange \/ CallGetConditionStatus \/ RenderCondition

SpecRange == InitRange /\ [][NextRange]_vars

(***************************************************************************)
(* Properties of the range helpers                                         *)
(***************************************************************************)
AllDigits(t) == \A i \in 1..Len(t) : IsDigit(t[i])
AllSpaces(t) == \A i \in 1..Len(t) : IsSpace(t[i])

\* t is written as digits, optionally followed by "." and digits
IsNumberText(t) ==
  \E k \in 1..Len(t) :
    /\ AllDigits(SubSeq(t, 1, k))
    /\ \/ k = Len(t)
       \/ /\ k + 1 < Len(t)
          /\ t[k + 1] = "."
          /\ AllDigits(SubSeq(t, k + 2, Len(t)))

\* what follows the second number does not continue it
IsUnitSuffix(t) ==
  /\ (Len(t) >= 1 => ~IsDigit(t[1]))
  /\ (Len(t) >= 2 => ~(t[1] = "." /\ IsDigit(t[2])))

\* s reads "<min>-<max><unit>": min is s[1..a], spaces, the dash at b,
\* spaces, max is s[c..e], the unit is the rest
WellFormedSplits(s) ==
  { x \in (1..Len(s)) \X (1..Len(s)) \X (1..Len(s)) \X (1..Len(s)) :
      /\ x[1] < x[2] /\ x[2] < x[3] /\ x[3] <= x[4]
      /\ IsNumberText(SubSeq(s, 1, x[1]))
      /\ AllSpaces(SubSeq(s, x[1] + 1, x[2] - 1))
      /\ s[x[2]] = "-"
      /\ AllSpaces(SubSeq(s, x[2] + 1, x[3] - 1))
      /\ IsNumberText(SubSeq(s, x[3], x[4]))
      /\ IsUnitSuffix(SubSeq(s, x[4] + 1, Len(s))) }

\* the numeric value of a number text, digit by digit
RECURSIVE IntegerOf(_)
IntegerOf(t) ==
  IF t = <<>> THEN 0 ELSE IntegerOf(SubSeq(t, 1, Len(t) - 1)) * 10 + DigitValue(t[Len(t)])

RECURSIVE PowerOfTen(_)
PowerOfTen(k) == IF k = 0 THEN 1 ELSE 10 * PowerOfTen(k - 1)

\* x and y denote the same number
SameNumber(x, y) == x.n * y.d = y.n * x.d

\* the number written by t: its digits over ten to the count of decimals
Denotes(x, t) ==
  LET dots == {i \in 1..Len(t) : t[i] = "."}
      decimals == IF dots = {} THEN 0 ELSE Len(t) - (CHOOSE i \in dots : TRUE)
      digits == SelectSeq(t, IsDigit)
  IN SameNumber(x, [n |-> IntegerOf(digits), d |-> PowerOfTen(decimals)])

\* somewhere in s a digit is followed by optional spaces, a dash, optional
\* spaces and a digit
HasNumberDashNumber(s) ==
  \E p, q, r \in 1..Len(s) :
    /\ p < q /\ q < r
    /\ IsDigit(s[p]) /\ s[q] = "-" /\ IsDigit(s[r])
    /\ AllSpaces(SubSeq(s, p + 1, q - 1))
    /\ AllSpaces(SubSeq(s, q + 1, r - 1))

\* C6: a well-formed "<min>-<max><unit>" string parses to exactly the pair
\* written in it; a string with no "<number>-<number>" pattern parses to null,
\* and with the null range every current value is classified optimal.
C6_ParseOptimalRange ==
  /\ optimalRange # None =>
       /\ \A x \in WellFormedSplits(optimalString) :
            /\ optimalRange # Null
            /\ Denotes(optimalRange.min, SubSeq(optimalString, 1, x[1]))
            /\ Denotes(optimalRange.max, SubSeq(optimalString, x[3], x[4]))
       /\ ~HasNumberDashNumber(optimalString) => optimalRange = Null
  /\ (conditionStatus # "none" /\ optimalRange = Null) => conditionStatus = "optimal"

\* C6 witness: "18-25°C" parsed to (18, 25) and a value above it classified
C6_Witness ==
  /\ optimalString = DefaultProfile.temperature
  /\ optimalRange = [min |-> [n |-> 18, d |-> 1], max |-> [n |-> 25, d |-> 1]]
  /\ conditionStatus = "high"

\* a string without the pattern was parsed to null and a non-zero value
\* classified against it
C6_WitnessNull ==
  /\ optimalRange = Null
  /\ conditionStatus = "optimal"
  /\ currentValue = [n |-> 40000, d |-> 1]

\* C19 as stated: for every displayed quantity with current numeric value v
\* and a range string that parses to (min, max), the badge status is low iff
\* v < min, high iff v > max, and optimal otherwise, for every numeric v
\* including 0 and negative values.
C19_BadgeStatus ==
  (badge # None /\ optimalRange # Null) =>
    /\ (badge.status = "low") <=> Less(badge.value, optimalRange.min)
    /\ (badge.status = "high") <=> Less(optimalRange.max, badge.value)
    /\ (badge.status = "optimal") <=>
         (~Less(badge.value, optimalRange.min) /\ ~Less(optimalRange.max, badge.value))

(***************************************************************************)
(* Weather lookup (route.ts 210-257)                                       *)
(*                                                                         *)
(* The weather service's behaviour is a record: whether the API key is     *)
(* configured, how the two HTTP calls end, and the data they carry.        *)
(***************************************************************************)
\* fetchWeatherData: null on a missing key, a non-2xx basic response, or any
\* exception (a failed fetch, a body without the expected members); the UV
\* index is kept only when the One Call request succeeds and carries one.
\* mutant: the status of the basic response is not looked at
fetchWeatherDataIgnoresStatus(w) ==
  IF ~w.apiKey THEN Null
  ELSE IF w.basic = "network-error" THEN Null
  ELSE IF w.oneCall = "network-error" THEN Null
  ELSE IF {"main", "weather", "wind"} \ DOMAIN w.basicData # {} THEN Null
  ELSE Merge(
         [temperature |-> w.basicData.main.temp,
          humidity |-> w.basicData.main.humidity,
          description |-> w.basicData.weather[1].description,
          windSpeed |-> w.basicData.wind.speed,
          pressure |-> w.basicData.main.pressure,
          visibility |-> w.basicData.visibility \div 1000,
          location |-> w.basicData.name,
          timestamp |-> w.now],
         IF w.oneCall = "ok" /\ "uvi" \in DOMAIN w.oneCallData
         THEN [uvIndex |-> w.oneCallData.uvi] ELSE <<>>)

fetchWeatherData(w) ==
  IF ~w.apiKey THEN Null
  ELSE IF w.basic = "network-error" THEN Null
  ELSE IF w.basic = "http-error" THEN Null
  ELSE IF w.oneCall = "network-error" THEN Null
  ELSE IF {"main", "weather", "wind"} \ DOMAIN w.basicData # {} THEN Null
  ELSE Merge(
         [temperature |-> w.basicData.main.temp,
          humidity |-> w.basicData.main.humidity,
          description |-> w.basicData.weather[1].description,
          windSpeed |-> w.basicData.wind.speed,
          pressure |-> w.basicData.main.pressure,
          visibility |-> w.basicData.visibility \div 1000,
          location |-> w.basicData.name,
          timestamp |-> w.now],
         IF w.oneCall = "ok" /\ "uvi" \in DOMAIN w.oneCallData
         THEN [uvIndex |-> w.oneCallData.uvi] ELSE <<>>)

(***************************************************************************)
(* Generative-AI response handling (route.ts 566-574)                      *)
(*                                                                         *)
(* The text the model returns is a sequence of pieces: a code-fence marker,*)
(* white space, prose, or the text of one JSON value (carried as the value *)
(* it denotes).                                                            *)
(***************************************************************************)
\* the two code-fence markers: three backticks followed by "json", and three
\* backticks alone
FenceJson == [fence |-> "json"]
Fence == [fence |-> ""]
Space == [space |-> "\n"]
Prose(t) == [prose |-> t]
Json(v) == [json |-> v]

IsFence(piece) == "fence" \in DOMAIN piece
IsSpacePiece(piece) == "space" \in DOMAIN piece
IsJson(piece) == "json" \in DOMAIN piece

\* text.replace(...) with the global pattern of the two fence markers
StripFences(text) == SelectSeq(text, LAMBDA piece : ~IsFence(piece))

\* String.prototype.trim
RECURSIVE TrimStart(_)
TrimStart(text) ==
  IF text # <<>> /\ IsSpacePiece(Head(text)) THEN TrimStart(Tail(text)) ELSE text

RECURSIVE TrimEnd(_)
TrimEnd(text) ==
  IF text # <<>> /\ IsSpacePiece(text[Len(text)])
  THEN TrimEnd(SubSeq(text, 1, Len(text) - 1)) ELSE text

Trim(text) == TrimEnd(TrimStart(text))

\* JSON.parse succeeds exactly when the text is one JSON value, white space
\* around it allowed
JsonParses(text) ==
  /\ Len(SelectSeq(text, LAMBDA piece : ~IsSpacePiece(piece))) = 1
  /\ IsJson(SelectSeq(text, LAMBDA piece : ~IsSpacePiece(piece))[1])

JsonParse(text) == SelectSeq(text, LAMBDA piece : ~IsSpacePiece(piece))[1].json

\* JSON values
JsonObject(fields) == [type |-> "object", fields |-> fields]
JsonArray(items) == [type |-> "array", items |-> items]
JsonNull == [type |-> "null"]
JsonNumber(n) == [type |-> "number", value |-> n]

IndexKeys == <<"0", "1", "2">>

\* { ...value }: the own enumerable properties of the value
Spread(v) ==
  IF v.type = "object" THEN v.fields
  ELSE IF v.type = "array"
  THEN [k \in {IndexKeys[i] : i \in 1..Len(v.items)} |->
          v.items[CHOOSE i \in 1..Len(v.items) : IndexKeys[i] = k]]
  ELSE <<>>

(***************************************************************************)
(* The endpoint (route.ts 464-616)                                         *)
(***************************************************************************)
\* mutant: the list of the 5-field handler
requiredFieldsWithoutNutrients ==
  <<"temperature", "humidity", "soilMoisture", "ph", "lightIntensity">>

requiredFields ==
  <<"temperature", "humidity", "soilMoisture", "ph", "lightIntensity",
    "Nitrogen", "Phosphorus", "Potassium">>

\* Array.prototype.join as the pieces of the resulting string
RECURSIVE Join(_, _)
Join(seq, sep) ==
  IF Len(seq) = 0 THEN <<>>
  ELSE IF Len(seq) = 1 THEN <<seq[1]>>
  ELSE <<seq[1], sep>> \o Join(Tail(seq), sep)

\* a request body the JSON parser rejects
Unparsable == [unparsable |-> TRUE]

NotCalled == [notCalled |-> TRUE]

Respond(status, body) == [status |-> status, body |-> body]

\* the outer catch (route.ts 608-614)
FailedToProcess == Respond(500, [error |-> <<"Failed to process request">>])

\* route.ts 472-477
MissingFieldsResponse(missingFields) ==
  Respond(400, [error |-> <<"Missing required fields: ">> \o Join(missingFields, ", ")])

\* if (sensorData.latitude && sensorData.longitude)
HasCoordinates(body) ==
  /\ "latitude" \in DOMAIN body /\ body.latitude # 0
  /\ "longitude" \in DOMAIN body /\ body.longitude # 0

\* mutant: the failure of the AI call is answered with the generic 500
FallbackResponseSurfacesError(body, weatherData, weatherImpact) == FailedToProcess

\* NextResponse.json({...fallbackData, weatherData, weatherImpact}); a throw
\* of getFallbackData reaches the outer catch
FallbackResponse(body, weatherData, weatherImpact) ==
  IF getFallbackData(body) = TypeError THEN FailedToProcess
  ELSE Respond(200, Merge(getFallbackData(body),
                          [weatherData |-> weatherData, weatherImpact |-> weatherImpact]))

\* a throw in the parse-error handler is caught by the API-error handler,
\* which evaluates the fallback once more
FallbackCalls(body, afterParseError) ==
  IF afterParseError /\ getFallbackData(body) = TypeError
  THEN <<"getFallbackData", "getFallbackData">>
  ELSE <<"getFallbackData">>

\* route.ts 572-580
PredictionResponse(parsed, weatherData, weatherImpact) ==
  Respond(200, Merge(Spread(parsed),
                     [weatherData |-> weatherData, weatherImpact |-> weatherImpact]))

\* the handler after validation: weather lookup, then AI or fallback
Assess(body, w, ai) ==
  LET lookup == HasCoordinates(body)
      weatherData == IF lookup THEN fetchWeatherData(w) ELSE Null
      weatherImpact == IF weatherData # Null
                       THEN analyzeWeatherImpact(weatherData, body) ELSE Null
      weatherCalls ==
        (IF lookup THEN <<"fetchWeatherData">> ELSE <<>>) \o
        (IF weatherData # Null THEN <<"analyzeWeatherImpact">> ELSE <<>>)
      fetched == IF lookup THEN weatherData ELSE NotCalled
      consulted == IF lookup THEN w ELSE NotCalled
  IN IF ~ai.apiKey
     THEN [response |-> FallbackResponse(body, weatherData, weatherImpact),
           calls |-> weatherCalls \o FallbackCalls(body, FALSE),
           weatherService |-> consulted,
           weatherFetched |-> fetched, aiOutcome |-> NotCalled]
     ELSE IF "error" \in DOMAIN ai.outcome
     THEN [response |-> FallbackResponse(body, weatherData, weatherImpact),
           calls |-> weatherCalls \o <<"generateContent">> \o FallbackCalls(body, FALSE),
           weatherService |-> consulted,
           weatherFetched |-> fetched, aiOutcome |-> ai.outcome]
     ELSE IF ~JsonParses(Trim(StripFences(ai.outcome.text)))
     THEN [response |-> FallbackResponse(body, weatherData, weatherImpact),
           calls |-> weatherCalls \o <<"generateContent">> \o FallbackCalls(body, TRUE),
           weatherService |-> consulted,
           weatherFetched |-> fetched, aiOutcome |-> ai.outcome]
     ELSE [response |-> PredictionResponse(JsonParse(Trim(StripFences(ai.outcome.text))),
                                           weatherData, weatherImpact),
           calls |-> weatherCalls \o <<"generateContent">>,
           weatherService |-> consulted,
           weatherFetched |-> fetched, aiOutcome |-> ai.outcome]

\* the whole handler
Handle(body, w, ai) ==
  IF body = Unparsable \/ body = Null
  THEN [response |-> FailedToProcess, calls |-> <<>>,
        weatherService |-> NotCalled,
        weatherFetched |-> NotCalled, aiOutcome |-> NotCalled]
  ELSE IF Len(SelectSeq(requiredFields, LAMBDA f : f \notin DOMAIN body)) > 0
  THEN [response |-> MissingFieldsResponse(
                       SelectSeq(requiredFields, LAMBDA f : f \notin DOMAIN body)),
        calls |-> <<>>,
        weatherService |-> NotCalled,
        weatherFetched |-> NotCalled, aiOutcome |-> NotCalled]
  ELSE Assess(body, w, ai)

(***************************************************************************)
(* Inputs of the endpoint                                                  *)
(***************************************************************************)
HarshReading ==
  [temperature |-> 4, humidity |-> 95, soilMoisture |-> 20, ph |-> 50,
   lightIntensity |-> 5000, Nitrogen |-> 70, Phosphorus |-> 30,
   Potassium |-> 90]

CompleteReading == FavorableReading

\* the readings the endpoint is documented to require
RequiredSet ==
  {"temperature", "humidity", "soilMoisture", "ph", "lightIntensity",
   "Nitrogen", "Phosphorus", "Potassium"}

Restrict(f, S) == [k \in S |-> f[k]]

CoordinateParts ==
  { <<>>, [latitude |-> 10, longitude |-> 76], [latitude |-> 0, longitude |-> 76] }

RequestPlantTypes ==
  { <<>>, [plantType |-> StringValue(KeyTomato)],
    [plantType |-> StringValue(<<"c","o","n","s","t","r","u","c","t","o","r">>)],
    [plantType |-> NumberValue(5)] }

\* bodies with every required field
CompleteBodies ==
  { Merge(Merge(r, t), c) :
      r \in {CompleteReading, HarshReading},
      t \in RequestPlantTypes, c \in CoordinateParts }

\* bodies that lack at least one required field
IncompleteBodies ==
  { Merge(Restrict(CompleteReading, S), c) :
      S \in (SUBSET RequiredSet) \ {RequiredSet},
      c \in {<<>>, [latitude |-> 10, longitude |-> 76]} }

RequestBodies == CompleteBodies \cup IncompleteBodies \cup {Unparsable, Null}

CalmData ==
  [name |-> "Kochi", main |-> [temp |-> 28, humidity |-> 70, pressure |-> 1010],
   weather |-> <<[description |-> "clear sky"]>>, wind |-> [speed |-> 5],
   visibility |-> 10000]

StormData ==
  [name |-> "Kochi", main |-> [temp |-> 24, humidity |-> 96, pressure |-> 995],
   weather |-> <<[description |-> "thunderstorm"]>>, wind |-> [speed |-> 16],
   visibility |-> 0]

WeatherService(apiKey, basic, basicData, oneCall, oneCallData) ==
  [apiKey |-> apiKey, basic |-> basic, basicData |-> basicData,
   oneCall |-> oneCall, oneCallData |-> oneCallData,
   now |-> "2025-01-01T00:00:00.000Z"]

WeatherServices ==
  { WeatherService(FALSE, "ok", CalmData, "ok", [uvi |-> 3]),
    WeatherService(TRUE, "http-error", CalmData, "ok", [uvi |-> 3]),
    WeatherService(TRUE, "network-error", CalmData, "ok", [uvi |-> 3]),
    WeatherService(TRUE, "ok", [name |-> "Kochi"], "ok", [uvi |-> 3]),
    WeatherService(TRUE, "ok", CalmData, "network-error", [uvi |-> 3]),
    WeatherService(TRUE, "ok", CalmData, "ok", [uvi |-> 3]),
    WeatherService(TRUE, "ok", CalmData, "ok", <<>>),
    WeatherService(TRUE, "ok", StormData, "http-error", <<>>),
    WeatherService(TRUE, "ok", StormData, "ok", [uvi |-> 9]) }

AiAssessment ==
  JsonObject([assessment |-> "Plants are healthy",
              problems |-> <<>>,
              recommendations |-> <<"Keep the current watering schedule">>,
              preventativeCare |-> <<"Inspect leaves weekly">>,
              optimalConditions |-> TomatoProfile])

\* an assessment that lists a problem
AiAssessmentWithProblem ==
  JsonObject([assessment |-> "Plants need water",
              problems |-> <<StringValue(<<"S","o","i","l"," ","i","s"," ","d","r","y">>)>>,
              recommendations |-> <<"Water the plants">>,
              preventativeCare |-> <<"Inspect leaves weekly">>,
              optimalConditions |-> TomatoProfile])

\* an assessment whose first problem speaks of the AI analysis itself
AiAssessmentEcho ==
  JsonObject([assessment |-> "Readings are incomplete",
              problems |->
                <<StringValue(
                    <<"U","n","a","b","l","e"," ","t","o"," ","g","e","t"," ",
                      "A","I"," ","a","n","a","l","y","s","i","s"," ","o","f",
                      " ","l","e","a","f"," ","c","o","l","o","u","r">>)>>,
              recommendations |-> <<"Water the plants">>,
              preventativeCare |-> <<"Inspect leaves weekly">>,
              optimalConditions |-> TomatoProfile])

\* an assessment whose problems are objects instead of strings
AiAssessmentStructured ==
  JsonObject([assessment |-> "Plants need nitrogen",
              problems |-> <<JsonObject([issue |-> "Low nitrogen",
                                         severity |-> "high"])>>,
              recommendations |-> <<"Add fertilizer">>,
              preventativeCare |-> <<"Inspect leaves weekly">>,
              optimalConditions |-> TomatoProfile])

AiTexts ==
  { <<Json(AiAssessment)>>,
    <<Json(AiAssessmentWithProblem)>>,
    <<FenceJson, Json(AiAssessmentEcho), Fence>>,
    <<Json(AiAssessmentStructured)>>,
    <<FenceJson, Space, Json(AiAssessment), Space, Fence>>,
    <<Space, Json(AiAssessment), Space>>,
    <<Prose("Here is the analysis:"), Space, FenceJson, Json(AiAssessment), Fence>>,
    <<Prose("I cannot help with that.")>>,
    <<>>,
    <<Fence, Fence>>,
    <<Json(JsonObject([assessment |-> "Plants are healthy"]))>>,
    <<Json(JsonObject(<<>>))>>,
    <<FenceJson, Json(JsonNull), Fence>>,
    <<Json(JsonNumber(42))>>,
    <<Json(JsonArray(<<AiAssessment>>))>> }

AiServices ==
  { [apiKey |-> FALSE, outcome |-> NotCalled] }
  \cup { [apiKey |-> TRUE, outcome |-> [error |-> e]] :
           e \in {"429", "404", "network"} }
  \cup { [apiKey |-> TRUE, outcome |-> [text |-> t]] : t \in AiTexts }

(***************************************************************************)
(* Specification of the endpoint: a request arrives and POST answers it,   *)
(* whatever the weather and generative-AI services do.                     *)
(***************************************************************************)
InitPost ==
  /\ request \in RequestBodies
  /\ response = None
  /\ calls = <<>>
  /\ weatherService = None
  /\ weatherFetched = None
  /\ aiOutcome = None
  /\ FallbackIdle
  /\ WeatherIdle
  /\ RangeIdle
  /\ PageIdle

POST ==
  /\ request # None
  /\ response = None
  /\ \E w \in WeatherServices, ai \in AiServices :
       /\ response' = Handle(request, w, ai).response
       /\ calls' = Handle(request, w, ai).calls
       /\ weatherService' = Handle(request, w, ai).weatherService
       /\ weatherFetched' = Handle(request, w, ai).weatherFetched
       /\ aiOutcome' = Handle(request, w, ai).aiOutcome
  /\ UNCHANGED request
  /\ UNCHANGED <<fallbackVars, weatherVars, rangeVars, pageVars>>

NextPost == POST

SpecPost == InitPost /\ [][NextPost]_vars

(***************************************************************************)
(* Properties of the endpoint                                              *)
(***************************************************************************)
\* the body carries an assessment of the declared shape
WellFormedAssessment(body) ==
  /\ {"assessment", "problems", "recommendations", "optimalConditions"} \subseteq DOMAIN body
  /\ FiveFields \subseteq DOMAIN body.optimalConditions

\* C8 as stated: every response is a well-formed assessment or an error
\* response with status 400 or 500 and a reason; never a partial or malformed
\* assessment body.
C8_ResponseWellFormed ==
  response # None =>
    \/ response.status = 200 /\ WellFormedAssessment(response.body)
    \/ /\ response.status \in {400, 500}
       /\ DOMAIN response.body = {"error"}
       /\ response.body.error # <<>>

IsObjectBody(body) == body # Unparsable /\ body # Null

\* every required field present, plantType absent or a string
ValidRequest(body) ==
  /\ IsObjectBody(body)
  /\ RequiredSet \subseteq DOMAIN body
  /\ "plantType" \in DOMAIN body => body.plantType.type = "string"

\* the AI text is one JSON value once fences and white space are set aside
TextIsJson(text) ==
  /\ Cardinality({i \in 1..Len(text) : ~IsFence(text[i]) /\ ~IsSpacePiece(text[i])}) = 1
  /\ \A i \in 1..Len(text) : IsFence(text[i]) \/ IsSpacePiece(text[i]) \/ IsJson(text[i])

\* the generative-AI call was made and failed
AiFailed ==
  /\ aiOutcome # None /\ aiOutcome # NotCalled
  /\ \/ "error" \in DOMAIN aiOutcome
     \/ "text" \in DOMAIN aiOutcome /\ ~TextIsJson(aiOutcome.text)

\* the weather data the handler holds after the lookup step
HeldWeatherData == IF weatherFetched = NotCalled THEN Null ELSE weatherFetched

\* C9: for a valid request, when the generative-AI call fails (error of any
\* status, or text that is not JSON once the fences are stripped) the
\* response has status 200 and its body is getFallbackData(sensorData) merged
\* with weatherData and weatherImpact.
C9_AiFailureFallsBack ==
  (response # None /\ ValidRequest(request) /\ AiFailed) =>
    /\ response.status = 200
    /\ response.body =
         Merge(getFallbackData(request),
               [weatherData |-> HeldWeatherData,
                weatherImpact |->
                  IF HeldWeatherData # Null
                  THEN analyzeWeatherImpact(HeldWeatherData, request)
                  ELSE Null])
    /\ calls[Len(calls)] = "getFallbackData"

\* C9 witness: the AI answered with prose around its JSON, the weather lookup
\* had succeeded, and the fallback assessment was sent
C9_Witness ==
  /\ response # None
  /\ ValidRequest(request)
  /\ AiFailed
  /\ "text" \in DOMAIN aiOutcome /\ Len(aiOutcome.text) = 5
  /\ HeldWeatherData # Null
  /\ response.status = 200
  /\ response.body.problems = <<StringValue(UnableToGetAiAnalysisDueToApiIssues)>>

\* C9 witness for a failed call: quota error
C9_WitnessQuota ==
  /\ response # None
  /\ ValidRequest(request)
  /\ aiOutcome = [error |-> "429"]
  /\ response.status = 200

MissingSet(body) == RequiredSet \ DOMAIN body

\* C10: a request whose JSON body lacks a required field is answered 400
\* with an error listing exactly the missing field names, before any weather
\* lookup, AI call or fallback evaluation.
C10_MissingFields ==
  (response # None /\ IsObjectBody(request) /\ MissingSet(request) # {}) =>
    /\ response.status = 400
    /\ DOMAIN response.body = {"error"}
    /\ response.body.error[1] = "Missing required fields: "
    /\ Len(response.body.error) = 2 * Cardinality(MissingSet(request))
    /\ { response.body.error[i] : i \in {j \in 2..Len(response.body.error) : j % 2 = 0} }
         = MissingSet(request)
    /\ \A i \in {j \in 3..Len(response.body.error) : j % 2 = 1} :
         response.body.error[i] = ", "
    /\ calls = <<>>
    /\ weatherFetched = NotCalled
    /\ aiOutcome = NotCalled

\* C10 witness: a body with coordinates but without Nitrogen and Potassium
\* was rejected
C10_Witness ==
  /\ response # None
  /\ IsObjectBody(request)
  /\ MissingSet(request) = {"Nitrogen", "Potassium"}
  /\ "latitude" \in DOMAIN request
  /\ response.body.error =
       <<"Missing required fields: ", "Nitrogen", ", ", "Potassium">>

\* the weather lookup was attempted and the service failed: no key, a
\* non-2xx answer, a network error, or an answer whose fields cannot be read
LookupFailed ==
  /\ weatherService # None /\ weatherService # NotCalled
  /\ \/ ~weatherService.apiKey
     \/ weatherService.basic \in {"http-error", "network-error"}
     \/ weatherService.oneCall = "network-error"
     \/ "main" \notin DOMAIN weatherService.basicData

\* C11: a failed weather lookup is non-fatal: fetchWeatherData returns null,
\* analyzeWeatherImpact is not called, and a valid request is still answered
\* 200 with weatherData and weatherImpact both null; in every 200 response
\* weatherImpact is non-null only if weatherData is non-null.
C11_WeatherFailureNonFatal ==
  /\ (response # None /\ LookupFailed) =>
       /\ weatherFetched = Null
       /\ \A i \in 1..Len(calls) : calls[i] # "analyzeWeatherImpact"
       /\ ValidRequest(request) =>
            /\ response.status = 200
            /\ response.body.weatherData = Null
            /\ response.body.weatherImpact = Null
            /\ calls[Len(calls)] \in {"generateContent", "getFallbackData"}
  /\ (response # None /\ response.status = 200) =>
       (response.body.weatherImpact # Null => response.body.weatherData # Null)

\* C11 witness: the weather service answered with a non-2xx status and the
\* AI assessment was still sent, without weather
C11_Witness ==
  /\ response # None
  /\ ValidRequest(request)
  /\ LookupFailed
  /\ weatherService.apiKey /\ weatherService.basic = "http-error"
  /\ calls = <<"fetchWeatherData", "generateContent">>
  /\ response.status = 200
  /\ response.body.weatherData = Null

\* C11 witness: the service threw while the answer was read, and the
\* fallback assessment was sent
C11_WitnessException ==
  /\ response # None
  /\ ValidRequest(request)
  /\ LookupFailed
  /\ weatherService.apiKey /\ weatherService.basic = "ok"
  /\ calls = <<"fetchWeatherData", "getFallbackData">>
  /\ response.status = 200

\* the request supplies both coordinates, whatever their numeric values
SuppliesCoordinates(body) ==
  IsObjectBody(body) /\ {"latitude", "longitude"} \subseteq DOMAIN body

\* C12 as stated: whenever a complete request supplies both latitude and
\* longitude (any numeric values) the weather lookup is performed, and when
\* the lookup succeeds the response carries non-null weatherData and
\* weatherImpact.
C12_LookupWhenCoordinates ==
  (response # None /\ SuppliesCoordinates(request) /\ MissingSet(request) = {}) =>
    /\ weatherService # NotCalled
    /\ Len(calls) > 0 /\ calls[1] = "fetchWeatherData"
    /\ (~LookupFailed /\ response.status = 200) =>
         /\ response.body.weatherData # Null
         /\ response.body.weatherImpact # Null

(***************************************************************************)
(* The form page (page.tsx 71-147)                                         *)
(***************************************************************************)
\* useState initial value of formData (page.tsx 72-80); pH in tenths
InitialFormData ==
  [soilMoisture |-> 45, ph |-> 68, lightIntensity |-> 18000, Nitrogen |-> 150,
   Phosphorus |-> 60, Potassium |-> 200,
   plantType |-> StringValue(<<"T","o","m","a","t","o"," ","P","l","a","n","t">>)]

\* Number(value) on the value of a number input: empty, or digits
Number(value) == IF value = <<>> THEN 0 ELSE parseFloat(value).n

\* setFormData(prev => ({...prev, [name]: name === 'plantType' ? value : Number(value)}))
handleInputChange(prev, name, value) ==
  Merge(prev, [k \in {name} |->
                 IF name = "plantType" THEN StringValue(value) ELSE Number(value)])

\* the inputs the form renders (page.tsx 162-168)
FormInputs ==
  <<"soilMoisture", "ph", "lightIntensity", "Nitrogen", "Phosphorus",
    "Potassium", "plantType">>

\* value={formData.x || ''}: what the input of a field shows
InputValue(data, name) ==
  IF name \notin DOMAIN data THEN <<>>
  ELSE IF name = "plantType" THEN data[name].chars
  ELSE IF data[name] = 0 THEN <<>>
  ELSE <<"shown">>

\* every InputField is required (page.tsx 62): the form submits only when
\* no input is empty
FormIsValid(data) ==
  \A i \in 1..Len(FormInputs) : InputValue(data, FormInputs[i]) # <<>>

\* {...formData, ...(userLocation && {latitude, longitude})}
requestData(data, location) ==
  Merge(data, IF location # Null
              THEN [latitude |-> location.latitude, longitude |-> location.longitude]
              ELSE <<>>)

\* 'Unable to get AI analysis' (page.tsx 136)
UnableToGetAiAnalysis ==
  <<"U","n","a","b","l","e"," ","t","o"," ","g","e","t"," ","A","I"," ",
    "a","n","a","l","y","s","i","s">>

\* String.prototype.includes
includes(chars, searchString) ==
  \E i \in 0..(Len(chars) - Len(searchString)) :
    SubSeq(chars, i + 1, i + Len(searchString)) = searchString

\* the truthiness of a JSON value
Truthy(v) ==
  CASE v.type = "string" -> v.chars # <<>>
    [] v.type = "number" -> v.value # 0
    [] v.type = "null" -> FALSE
    [] OTHER -> TRUE

\* what handleSubmit does once the fetch has answered (page.tsx 127-146):
\* the state of the page after the finally block
AfterResponse(answer) ==
  IF answer.status # 200
  THEN [prediction |-> Null,
        error |-> [message |->
                     IF "error" \in DOMAIN answer.body /\ answer.body.error # <<>>
                     THEN answer.body.error ELSE <<"Something went wrong">>],
        apiStatus |-> "error", isLoading |-> FALSE]
  ELSE IF \/ "problems" \notin DOMAIN answer.body
          \/ answer.body.problems = <<>>
          \/ ~Truthy(answer.body.problems[1])
  THEN [prediction |-> answer.body, error |-> Null,
        apiStatus |-> "connected", isLoading |-> FALSE]
  ELSE IF answer.body.problems[1].type # "string"
  THEN [prediction |-> answer.body,
        error |-> [message |-> <<"data.problems[0].includes is not a function">>],
        apiStatus |-> "error", isLoading |-> FALSE]
  ELSE IF includes(answer.body.problems[1].chars, UnableToGetAiAnalysis)
  THEN [prediction |-> answer.body, error |-> Null,
        apiStatus |-> "fallback", isLoading |-> FALSE]
  ELSE [prediction |-> answer.body, error |-> Null,
        apiStatus |-> "connected", isLoading |-> FALSE]

(***************************************************************************)
(* Inputs of the page                                                      *)
(***************************************************************************)
\* what the user types into an input
ChangeEvents ==
  { [name |-> "soilMoisture", value |-> <<>>],
    [name |-> "soilMoisture", value |-> <<"2","0">>],
    [name |-> "Nitrogen", value |-> <<"7","0">>],
    [name |-> "plantType", value |-> <<>>],
    [name |-> "plantType", value |-> KeyLettuce] }

\* the positions the browser reports
Positions ==
  { [latitude |-> 10, longitude |-> 76], [latitude |-> 0, longitude |-> 76] }

\* the messages of a rejected fetch and of a body that is not JSON
FetchFailures ==
  { "Failed to fetch", "Unexpected token < in JSON at position 0" }

(***************************************************************************)
(* Specification of the page: the user edits the form, the browser reports *)
(* a position, a submit sends the request, the endpoint answers or the     *)
(* fetch fails, and handleSubmit finishes.                                 *)
(***************************************************************************)
InitPage ==
  /\ formData = InitialFormData
  /\ userLocation = Null
  /\ prediction = Null
  /\ isLoading = FALSE
  /\ error = Null
  /\ apiStatus = "idle"
  /\ PostIdle
  /\ FallbackIdle
  /\ WeatherIdle
  /\ RangeIdle

HandleInputChange ==
  /\ \E e \in ChangeEvents :
       formData' = handleInputChange(formData, e.name, e.value)
  /\ UNCHANGED <<userLocation, prediction, isLoading, error, apiStatus>>
  /\ UNCHANGED <<fallbackVars, weatherVars, rangeVars, postVars>>

\* the success callback of getCurrentPosition (page.tsx 95-98)
LocationDetected ==
  /\ userLocation = Null
  /\ \E position \in Positions : userLocation' = position
  /\ UNCHANGED <<formData, prediction, isLoading, error, apiStatus>>
  /\ UNCHANGED <<fallbackVars, weatherVars, rangeVars, postVars>>

\* handleSubmit up to the fetch (page.tsx 108-125); the submit button is
\* disabled while loading
HandleSubmit ==
  /\ ~isLoading
  /\ FormIsValid(formData)
  /\ isLoading' = TRUE
  /\ error' = Null
  /\ prediction' = Null
  /\ apiStatus' = "loading"
  /\ request' = requestData(formData, userLocation)
  /\ response' = None
  /\ calls' = <<>>
  /\ weatherService' = None
  /\ weatherFetched' = None
  /\ aiOutcome' = None
  /\ UNCHANGED <<formData, userLocation>>
  /\ UNCHANGED <<fallbackVars, weatherVars, rangeVars>>

\* handleSubmit after the fetch has answered (page.tsx 127-146)
HandleResponse ==
  /\ isLoading
  /\ response # None
  /\ prediction' = AfterResponse(response).prediction
  /\ error' = AfterResponse(response).error
  /\ apiStatus' = AfterResponse(response).apiStatus
  /\ isLoading' = AfterResponse(response).isLoading
  /\ UNCHANGED <<formData, userLocation>>
  /\ UNCHANGED <<fallbackVars, weatherVars, rangeVars, postVars>>

\* the fetch rejects, or what arrives in place of the endpoint's answer is
\* not JSON and response.json() throws: catch and finally (page.tsx 141-146)
FetchFails ==
  /\ isLoading
  /\ response = None
  /\ \E message \in FetchFailures : error' = [message |-> <<message>>]
  /\ apiStatus' = "error"
  /\ isLoading' = FALSE
  /\ UNCHANGED <<formData, userLocation, prediction>>
  /\ UNCHANGED <<fallbackVars, weatherVars, rangeVars, postVars>>

NextPage ==
  \/ HandleInputChange
  \/ LocationDetected
  \/ HandleSubmit
  \/ POST
  \/ HandleResponse
  \/ FetchFails

SpecPage == InitPage /\ [][NextPage]_vars

(***************************************************************************)
(* Specification of the response handling: handleSubmit has sent a JSON    *)
(* object to the endpoint and is waiting; the endpoint answers or the      *)
(* fetch fails, and handleSubmit finishes.                                 *)
(***************************************************************************)
InitSubmitted ==
  /\ request \in CompleteBodies \cup IncompleteBodies
  /\ response = None
  /\ calls = <<>>
  /\ weatherService = None
  /\ weatherFetched = None
  /\ aiOutcome = None
  /\ formData = InitialFormData
  /\ userLocation = Null
  /\ prediction = Null
  /\ isLoading = TRUE
  /\ error = Null
  /\ apiStatus = "loading"
  /\ FallbackIdle
  /\ WeatherIdle
  /\ RangeIdle

NextSubmitted == POST \/ HandleResponse \/ FetchFails

SpecSubmitted == InitSubmitted /\ [][NextSubmitted]_vars

\* the fetch promise settles (POST returns on every path, route.ts 464-616)
\* and the continuation of handleSubmit then runs
SpecSubmittedFair ==
  /\ SpecSubmitted
  /\ WF_vars(POST)
  /\ WF_vars(HandleResponse)

(***************************************************************************)
(* Properties of the page                                                  *)
(***************************************************************************)
\* C13 as stated: every request handleSubmit sends carries all the readings
\* the endpoint requires, so a submission of the filled form is never
\* answered 400 "Missing required fields" and reaches the assessment step.
C13_FormCarriesRequiredFields ==
  /\ request # None => RequiredSet \subseteq DOMAIN request
  /\ response # None =>
       /\ response.status # 400
       /\ calls # <<>>

\* the step of the endpoint that produced the response
ProducedByFallback == calls # <<>> /\ calls[Len(calls)] = "getFallbackData"
ProducedByAi == calls # <<>> /\ calls[Len(calls)] = "generateContent"

\* handleSubmit has finished on a successful response
SuccessHandled ==
  /\ response # None /\ response.status = 200
  /\ ~isLoading
  /\ prediction # Null

\* C14 as stated: every result of getFallbackData has problems exactly
\* ["Unable to get AI analysis due to API issues"], and after handleSubmit
\* receives a successful response apiStatus is 'fallback' if and only if the
\* response was produced by the fallback engine, and 'connected' if and only
\* if it was produced by the generative-AI path.
C14_FallbackDetection ==
  /\ (response # None /\ response.status = 200 /\ ProducedByFallback) =>
       response.body.problems = <<StringValue(UnableToGetAiAnalysisDueToApiIssues)>>
  /\ SuccessHandled =>
       /\ (apiStatus = "fallback") <=> ProducedByFallback
       /\ (apiStatus = "connected") <=> ProducedByAi

\* C22 as stated: every run of handleSubmit terminates with isLoading false,
\* whatever the endpoint answers; isLoading is true and apiStatus is
\* 'loading' from the start of the submit until it completes; on completion
\* exactly one of prediction and error is non-null, apiStatus is 'error' if
\* and only if error is non-null, and 'connected' or 'fallback' if and only
\* if prediction is non-null.
C22_SubmitCompletes ==
  /\ [](isLoading <=> apiStatus = "loading")
  /\ [](~isLoading =>
          /\ (prediction # Null) <=> (error = Null)
          /\ (apiStatus = "error") <=> (error # Null)
          /\ (apiStatus \in {"connected", "fallback"}) <=> (prediction # Null))
  /\ (isLoading ~> ~isLoading)

====
